---- MODULE Spec2Model ----
(***************************************************************************)
(* A model of the mcp-secure-server validation middleware:                 *)
(*   - SecureTransport and ValidationPipeline (Spec, SpecPipeline),        *)
(*   - the canonical-content cache of the content layer (SpecCache),       *)
(*   - InMemoryQuotaProvider (SpecQuota),                                  *)
(*   - SemanticsValidationLayer, L4, with its quota provider (SpecL4),     *)
(*   - BehaviorValidationLayer, L3 (SpecL3),                               *)
(* each translated from the JavaScript source.  The specifications share   *)
(* the module's variables; each leaves the other components' variables at  *)
(* their constructed values.                                               *)
(***************************************************************************)
EXTENDS Integers, Sequences, FiniteSets, TLC

(***************************************************************************)
(* Bounds of the model.                                                    *)
(***************************************************************************)
\* number of inbound messages one behaviour delivers to the transport
MaxMsgs == 2
\* number of direct calls of pipeline.validate in one behaviour of SpecPipeline
MaxCalls == 1

(***************************************************************************)
(* Values.  JavaScript's undefined is the string "undefined"; a boolean    *)
(* field that may be missing is one of "true", "false", "undefined".       *)
(***************************************************************************)
Undefined == "undefined"
Tri == {"true", "false", Undefined}

\* the ids an inbound message may carry: none, null, or a number
MessageIds == {Undefined, "null", "1"}

\* An inbound message as SecureTransport sees it: whether it has a method,
\* its id, and whether it has a result or an error field.
Messages == [method : {Undefined, "tools/call"},
             id : MessageIds,
             result : {Undefined, "value"}]

\* The layers of the shipped wiring, in list order.
Layers == 1..4
LayerNames == <<"StructureValidationLayer", "ContentValidationLayer",
                "BehaviorValidationLayer", "SemanticsValidationLayer">>
getName(i) == LayerNames[i]

\* What a layer's validate may do: throw, or return an object whose passed,
\* allowed, severity and violationType fields may each be missing.
RawResults == [passed : Tri, allowed : Tri,
               severity : {Undefined, "HIGH"},
               reason : {Undefined, "why"},
               violationType : {Undefined, "POLICY"}]
LayerOutcomes == [kind : {"result"}, raw : RawResults] \cup {[kind |-> "throw"]}

NoResult == [passed |-> TRUE, allowed |-> TRUE, severity |-> "unset",
             reason |-> "unset", violationType |-> "unset", layerName |-> "unset"]

VARIABLES
  enabled,          \* layer.options.enabled of each layer of the pipeline
  inbox,            \* the messages the transport delivered, in arrival order
  handler,          \* where _handleMessage stands for each message
  layerPos,         \* the loop index i of pipeline.validate for each message
  invoked,          \* the layers whose validate ran for each message, in order
  falseAt,          \* first layer whose normalized result had passed = false
  thrownAt,         \* the layer whose validate threw, if any
  validationResult, \* what _validateMessage returned for each message
  verdict,          \* history: "allowed" or "blocked", the validator's answer
  forwarded,        \* the messages given to the protocol's onmessage, in order
  delivered,        \* the values the protocol's onmessage was called with
  sentResponses,    \* the error responses handed to transport.send, in order
  onErrorCalls      \* how many times _protocolOnError was called

transportVars == <<enabled, inbox, handler, layerPos, validationResult, verdict,
                   forwarded, delivered, sentResponses, onErrorCalls>>
pipelineHistory == <<invoked, falseAt, thrownAt>>

VARIABLES
  processedContentCache, \* ContentValidationLayer.processedContentCache
  l2Message,             \* history: the message of the last L2 validation
  l2Processed,           \* history: the processedContent its checks were given
  l2Cleared              \* history: the last L2 validation cleared the cache

cacheVars == <<processedContentCache, l2Message, l2Processed, l2Cleared>>

VARIABLES
  now,    \* Date.now(), in milliseconds
  ticks   \* how many times the clock advanced

clockVars == <<now, ticks>>

VARIABLES
  counters,     \* InMemoryQuotaProvider.counters: key -> {minute?, hour?}
  quotaLimits,  \* the limits {minute, hour} the callers pass for each key
  quotaCalls,   \* how many incrementAndCheck calls were made
  quotaWindows, \* history: per key and bucket, the calls of the current window
  quotaLast     \* history: the last incrementAndCheck call and its result

quotaVars == <<counters, quotaLimits, quotaCalls, quotaWindows, quotaLast>>

VARIABLES
  tool,       \* the tool "calc" of SemanticsValidationLayer.tools
  policy,     \* context.policy: {allowWrites, allowNetwork}
  l4Pending,  \* pipeline.validate calls that have not reached L4 yet
  l4Done,     \* how many L4 validations ran
  l4Last,     \* history: the last L4 validation and its result
  toolWindow  \* history: the tool's current per-minute quota window

l4Vars == <<tool, policy, l4Pending, l4Done, l4Last, toolWindow>>

VARIABLES
  rateLimits,      \* BehaviorValidationLayer.rateLimits
  requestCounters, \* BehaviorValidationLayer.requestCounters
  recentRequests,  \* BehaviorValidationLayer.recentRequests (timestamps)
  l3Pending,       \* pipeline.validate calls that have not reached L3 yet
  l3Log,           \* history: the L3 validations, in the order they ran
  l3Batch,         \* history: how many calls waited when the first one ran
  minuteWindow     \* history: the current per-minute window of L3

l3Vars == <<rateLimits, requestCounters, recentRequests, l3Pending, l3Log,
            l3Batch, minuteWindow>>

VARIABLES
  resourcePolicy, \* SemanticsValidationLayer.res: the rootDirs of the policy
  baseDir,        \* context.baseDir
  uri,            \* params.uri of the resources/read at hand
  accessResult    \* what validateResourceAccess returned for it

resVars == <<resourcePolicy, baseDir, uri, accessResult>>

VARIABLES
  sessionMap,  \* SessionMemory.map, in the Map's insertion order
  sessionOps,  \* how many SessionMemory methods were called
  sessionLast, \* history: the last call, the map before it and what it returned
  sessionUsed  \* history: the keys in the order of their last get hit or set

sessVars == <<sessionMap, sessionOps, sessionLast, sessionUsed>>

VARIABLES
  l1Calls, \* how many StructureValidationLayer.validate calls were made
  l1Last   \* history: the last call, the checks it applied and its result

l1Vars == <<l1Calls, l1Last>>

VARIABLES
  cleanupTimer, \* BehaviorValidationLayer.cleanupTimer is set
  timer,        \* InMemoryQuotaProvider.timer is set
  serverClosed, \* shutdown() has completed
  sweptAfter    \* history: a sweep of the quota provider ran after shutdown

shutdownVars == <<cleanupTimer, timer, serverClosed, sweptAfter>>

VARIABLES
  enableLogging,         \* options.enableLogging: the server has a logger
  _requestIdByJsonrpcId, \* SecureMcpServer._requestIdByJsonrpcId, as pairs
  _requestHistory,       \* SecureMcpServer._requestHistory (the request ids)
  requestCount,          \* SecurityLogger.requestCount, behind nextRequestId
  trackCalls             \* how many times the validator was called

trackVars == <<enableLogging, _requestIdByJsonrpcId, _requestHistory,
               requestCount, trackCalls>>

VARIABLES
  _errorSanitizer, \* SecureTransport._errorSanitizer: none, or its config
  blockedCalls,    \* how many times _sendBlockedResponse was called
  blockedLast      \* history: the last call and the response it built

blockVars == <<_errorSanitizer, blockedCalls, blockedLast>>

VARIABLES
  validators, \* ContextualValidationLayer.validators, in the Map's order
  globalRules, \* ContextualValidationLayer.globalRules
  l5Calls,    \* how many times L5's validate was called
  l5Last      \* history: the last call, the validators it invoked, its result

l5Vars == <<validators, globalRules, l5Calls, l5Last>>

VARIABLES
  canonInput, \* the string last handed to canonicalizeString
  canonOnce,  \* its canonical form
  canonTwice  \* the canonical form of its canonical form

canonVars == <<canonInput, canonOnce, canonTwice>>

VARIABLES
  frameStage, \* the loop index of the pipeline.validate call under way, or 0
  frameCall,  \* its message, the first layer that failed it, and history:
              \* the counters of L3 and L4 when the call began
  frameCalls, \* how many pipeline.validate calls began
  frameLast   \* history: the call that ended last

frameVars == <<frameStage, frameCall, frameCalls, frameLast>>

VARIABLES
  unswept,   \* history: the counters of a provider whose sweep never ran
  sweepLast  \* history: the last incrementAndCheck call, on both providers

sweepVars == <<unswept, sweepLast>>

VARIABLES
  chaining,   \* SemanticsValidationLayer.chaining: the rules {from, to}
  chainCalls, \* how many times checkMethodChaining was called
  chainLast   \* history: the last call and the session's method before it

chainVars == <<chaining, chainCalls, chainLast>>

\* the state of the models of the utilities and of the assembled pipeline
moreVars == <<canonVars, frameVars, sweepVars, chainVars>>

\* the state of the models of the single layers and of the server object
extraVars == <<l1Vars, shutdownVars, trackVars, blockVars, l5Vars, moreVars>>
\* the state of the models above
coreVars == <<transportVars, pipelineHistory, cacheVars, clockVars, quotaVars,
              l4Vars, l3Vars, resVars, sessVars>>

vars == <<transportVars, pipelineHistory, cacheVars, clockVars, quotaVars,
          l4Vars, l3Vars, resVars, sessVars, extraVars>>
\* what canonicalizeString leaves alone
canonFrame == <<coreVars, l1Vars, shutdownVars, trackVars, blockVars, l5Vars,
                frameVars, sweepVars, chainVars>>
\* what a call of L1 leaves alone
l1Frame == <<coreVars, shutdownVars, trackVars, blockVars, l5Vars, moreVars>>
\* what the validator's bookkeeping leaves alone
trackFrame == <<coreVars, l1Vars, shutdownVars, blockVars, l5Vars, moreVars>>
\* what the building of an error response leaves alone
blockFrame == <<coreVars, l1Vars, shutdownVars, trackVars, l5Vars, moreVars>>
\* what the contextual layer leaves alone
l5Frame == <<coreVars, l1Vars, shutdownVars, trackVars, blockVars, moreVars>>

\* what the transport and the pipeline leave alone
transportFrame == <<cacheVars, clockVars, quotaVars, l4Vars, l3Vars, resVars,
                    sessVars, extraVars>>
\* what the content layer's cache leaves alone
cacheFrame == <<transportVars, pipelineHistory, clockVars, quotaVars, l4Vars,
                l3Vars, resVars, sessVars, extraVars>>
\* what the quota provider leaves alone
quotaFrame == <<transportVars, pipelineHistory, cacheVars, l4Vars, l3Vars,
                resVars, sessVars, extraVars>>
\* what the clock leaves alone
clockFrame == <<transportVars, pipelineHistory, cacheVars, quotaVars, l4Vars,
                l3Vars, resVars, sessVars, extraVars>>
\* what L4 leaves alone, its quota provider apart
l4Frame == <<transportVars, pipelineHistory, cacheVars, l3Vars, resVars,
             sessVars, extraVars>>
\* what L3 leaves alone
l3Frame == <<transportVars, pipelineHistory, cacheVars, quotaVars, l4Vars,
             resVars, sessVars, extraVars>>
\* what a resource access check leaves alone
resFrame == <<transportVars, pipelineHistory, cacheVars, clockVars, quotaVars,
              l4Vars, l3Vars, sessVars, extraVars>>
\* what SessionMemory leaves alone
sessFrame == <<transportVars, pipelineHistory, cacheVars, clockVars, quotaVars,
               l4Vars, l3Vars, resVars, extraVars>>

\* no resources/read at hand
ResInit ==
  /\ resourcePolicy = [allowedSchemes |-> {"file"}, rootDirs |-> {},
                       maxPathLength |-> 4096, maxUriLength |-> 2048,
                       maxReadBytes |-> 2000000]
  /\ baseDir = <<"/">>
  /\ uri = <<>>
  /\ accessResult = <<>>

\* no StructureValidationLayer.validate call made
L1Init ==
  /\ l1Calls = 0
  /\ l1Last = <<>>

\* a server just constructed: setupCleanup and the quota provider's
\* constructor have started their timers
ShutdownInit ==
  /\ cleanupTimer = TRUE
  /\ timer = TRUE
  /\ serverClosed = FALSE
  /\ sweptAfter = FALSE

\* new SecureMcpServer(): an empty history and an empty request-id map
TrackInit ==
  /\ enableLogging = FALSE
  /\ _requestIdByJsonrpcId = {}
  /\ _requestHistory = <<>>
  /\ requestCount = 0
  /\ trackCalls = 0

\* a transport as _wrapTransport builds it: with the production sanitizer
BlockInit ==
  /\ _errorSanitizer = "production"
  /\ blockedCalls = 0
  /\ blockedLast = <<>>

\* new ContextualValidationLayer() without options: no validator
L5Init ==
  /\ validators = <<>>
  /\ globalRules = <<>>
  /\ l5Calls = 0
  /\ l5Last = <<>>

\* the keys quotas are kept for, and the two buckets of a key
QuotaKeys == {"tool:calc", "method:resources/read"}
Buckets == {"minute", "hour"}
NoBucket == [present |-> FALSE, count |-> 0, windowStart |-> 0]
NoWindow == [open |-> FALSE, start |-> 0, calls |-> 0, passes |-> 0]

\* no string canonicalized yet
CanonInit ==
  /\ canonInput = <<>>
  /\ canonOnce = <<>>
  /\ canonTwice = <<>>

\* no pipeline.validate call made
FrameInit ==
  /\ frameStage = 0
  /\ frameCall = <<>>
  /\ frameCalls = 0
  /\ frameLast = <<>>

\* the two providers start alike
SweepInit ==
  /\ unswept = [k \in QuotaKeys |-> [b \in Buckets |-> NoBucket]]
  /\ sweepLast = <<>>

\* getDefaultPolicies: the chaining rules among initialize, ping, tools/list
\* and tools/call
DefaultChaining ==
  {[from |-> "*", to |-> "initialize"],
   [from |-> "initialize", to |-> "tools/list"],
   [from |-> "*", to |-> "ping"],
   [from |-> "tools/list", to |-> "tools/call"],
   [from |-> "tools/call", to |-> "tools/call"]}

\* the layer with the default rules, checkMethodChaining not yet called
ChainInit ==
  /\ chaining = DefaultChaining
  /\ chainCalls = 0
  /\ chainLast = <<>>

MoreInit == CanonInit /\ FrameInit /\ SweepInit /\ ChainInit

ExtraInit == L1Init /\ ShutdownInit /\ TrackInit /\ BlockInit /\ L5Init /\ MoreInit

\* new SessionMemory(): an empty map
SessInit ==
  /\ sessionMap = <<>>
  /\ sessionOps = 0
  /\ sessionLast = <<>>
  /\ sessionUsed = <<>>

\* new ContentValidationLayer(): an empty cache
CacheInit ==
  /\ processedContentCache = {}
  /\ l2Message = <<>>
  /\ l2Processed = <<>>
  /\ l2Cleared = FALSE

ClockInit == now = 0 /\ ticks = 0

\* new InMemoryQuotaProvider(): no counters; a limit of 0 is a limit that is
\* not configured (undefined and 0 are both skipped by "if (minute)")
QuotaInit ==
  /\ counters = [k \in QuotaKeys |-> [b \in Buckets |-> NoBucket]]
  /\ quotaLimits = [k \in QuotaKeys |-> [minute |-> 0, hour |-> 0]]
  /\ quotaCalls = 0
  /\ quotaWindows = [k \in QuotaKeys |-> [b \in Buckets |-> NoWindow]]
  /\ quotaLast = <<>>

\* getDefaultPolicies: the tool debug-calculator, here "calc"
DefaultTool ==
  [name |-> "calc", sideEffects |-> "none", maxArgsSize |-> 2000,
   maxEgressBytes |-> 8000, quotaPerMinute |-> 120, quotaPerHour |-> 3000]

\* the messages L4 is given: the method; for tools/call params.name, the
\* state of params.arguments against argsShape {expression: string} and its
\* serialized size; for resources/read what validateResourceAccess says of
\* params.uri
L4Messages ==
  [method : {Undefined, "bogus", "ping"}, name : {"-"}, args : {"-"},
   bytes : {0}, uri : {"-"}]
  \cup [method : {"tools/call"}, name : {Undefined, "ghost"}, args : {"valid"},
        bytes : {20}, uri : {"-"}]
  \cup [method : {"tools/call"}, name : {"calc"},
        args : {"notobject", "missing", "wrongtype"}, bytes : {20}, uri : {"-"}]
  \cup [method : {"tools/call"}, name : {"calc"}, args : {"valid"},
        bytes : {20, 600, 2500}, uri : {"-"}]
  \cup [method : {"resources/read"}, name : {"-"}, args : {"-"}, bytes : {0},
        uri : {Undefined, "denied", "allowed"}]

\* new SemanticsValidationLayer() with the default registry, no call made
L4Init ==
  /\ tool = DefaultTool
  /\ policy = [allowWrites |-> FALSE, allowNetwork |-> FALSE]
  /\ l4Pending = 0
  /\ l4Done = 0
  /\ l4Last = <<>>
  /\ toolWindow = NoWindow

RateKeys == {"requests-per-minute", "requests-per-hour"}
\* constants.js RATE_LIMITS
RATE_LIMITS ==
  [REQUESTS_PER_MINUTE |-> 30, REQUESTS_PER_HOUR |-> 500, BURST_THRESHOLD |-> 10]
\* the constructor of BehaviorValidationLayer: an option that is missing or
\* 0 gives way to the constant
RateLimitsOf(options) ==
  [requestsPerMinute |-> IF options.requestsPerMinute = 0
                         THEN RATE_LIMITS.REQUESTS_PER_MINUTE ELSE options.requestsPerMinute,
   requestsPerHour |-> IF options.requestsPerHour = 0
                       THEN RATE_LIMITS.REQUESTS_PER_HOUR ELSE options.requestsPerHour,
   burstThreshold |-> IF options.burstThreshold = 0
                      THEN RATE_LIMITS.BURST_THRESHOLD ELSE options.burstThreshold]
\* the state of a BehaviorValidationLayer that has seen no request
L3Fresh ==
  /\ requestCounters = [k \in RateKeys |-> NoBucket]
  /\ recentRequests = <<>>
  /\ l3Pending = 0
  /\ l3Log = <<>>
  /\ l3Batch = 0
  /\ minuteWindow = NoWindow
\* new BehaviorValidationLayer() without options
L3Init ==
  /\ rateLimits = RateLimitsOf([requestsPerMinute |-> 0, requestsPerHour |-> 0,
                                burstThreshold |-> 0])
  /\ L3Fresh

(***************************************************************************)
(* SecureTransport._getMessageType                                         *)
(***************************************************************************)
_getMessageTypeMut(message) ==
  IF message.method # Undefined /\ message.id # Undefined THEN "request"
  ELSE IF message.method # Undefined /\ message.id = Undefined THEN "notification"
  ELSE "unknown"
_getMessageType(message) ==
  IF message.method # Undefined /\ message.id # Undefined THEN "request"
  ELSE IF message.method # Undefined /\ message.id = Undefined THEN "notification"
  ELSE IF message.id # Undefined /\ message.result # Undefined THEN "response"
  ELSE "unknown"

(***************************************************************************)
(* ValidationPipeline.validate: the normalizedResult of a layer's result.  *)
(***************************************************************************)
\* a result without passed and allowed taken for a failure
normalizedResultMut(raw, i) ==
  [passed |-> IF raw.passed # Undefined THEN raw.passed = "true"
              ELSE IF raw.allowed # Undefined THEN raw.allowed = "true"
              ELSE FALSE,
   allowed |-> IF raw.allowed # Undefined THEN raw.allowed = "true"
               ELSE IF raw.passed # Undefined THEN raw.passed = "true"
               ELSE FALSE,
   severity |-> IF raw.severity = Undefined THEN "LOW" ELSE raw.severity,
   reason |-> IF raw.reason = Undefined THEN "No reason provided" ELSE raw.reason,
   violationType |-> IF raw.violationType = Undefined THEN "UNKNOWN"
                     ELSE raw.violationType,
   layerName |-> getName(i)]
normalizedResult(raw, i) ==
  [passed |-> IF raw.passed # Undefined THEN raw.passed = "true"
              ELSE IF raw.allowed # Undefined THEN raw.allowed = "true"
              ELSE TRUE,
   allowed |-> IF raw.allowed # Undefined THEN raw.allowed = "true"
               ELSE IF raw.passed # Undefined THEN raw.passed = "true"
               ELSE TRUE,
   severity |-> IF raw.severity = Undefined THEN "LOW" ELSE raw.severity,
   reason |-> IF raw.reason = Undefined THEN "No reason provided" ELSE raw.reason,
   violationType |-> IF raw.violationType = Undefined THEN "UNKNOWN"
                     ELSE raw.violationType,
   layerName |-> getName(i)]

\* an early return for critical failures only
PipelineReturnsMut(n) == ~n.passed /\ ~n.allowed /\ n.severity = "CRITICAL"
\* the early return of the loop: if (!normalizedResult.passed && !normalizedResult.allowed)
PipelineReturns(n) == ~n.passed /\ ~n.allowed

\* the errorResult of the catch block
errorResultMut(i) ==
  [passed |-> TRUE, allowed |-> TRUE, severity |-> "CRITICAL",
   reason |-> "Layer validation error", violationType |-> "VALIDATION_ERROR",
   layerName |-> getName(i)]
errorResult(i) ==
  [passed |-> FALSE, allowed |-> FALSE, severity |-> "CRITICAL",
   reason |-> "Layer validation error", violationType |-> "VALIDATION_ERROR",
   layerName |-> getName(i)]

successResult ==
  [passed |-> TRUE, allowed |-> TRUE, severity |-> "NONE",
   reason |-> "All validation layers passed", violationType |-> "null",
   layerName |-> "Pipeline"]

\* a catch block that lets the message through
validatorErrorResultMut ==
  [passed |-> TRUE, allowed |-> TRUE, severity |-> "CRITICAL",
   reason |-> "Validation error", violationType |-> "VALIDATION_ERROR",
   layerName |-> Undefined]

\* the result _validateMessage builds when the validator throws
validatorErrorResult ==
  [passed |-> FALSE, allowed |-> FALSE, severity |-> "CRITICAL",
   reason |-> "Validation error", violationType |-> "VALIDATION_ERROR",
   layerName |-> Undefined]

\* the loop without its test of isEnabled()
NextEnabledMut(i) == IF i \in Layers THEN i ELSE 0
\* the next enabled layer at or after loop index i; 0 when the loop is over
NextEnabled(i) ==
  IF \E j \in Layers : j >= i /\ enabled[j]
  THEN CHOOSE j \in Layers : j >= i /\ enabled[j] /\
                             \A k \in Layers : (k >= i /\ enabled[k]) => j <= k
  ELSE 0

(***************************************************************************)
(* SecureTransport._handleMessage, up to its first await.                  *)
(***************************************************************************)
\* SecureMcpServer._mapSdkMethod: methodMap[method] || method
_mapSdkMethod(method) == method
\* the object an HTTP-style request carries as its body
BodyObject == [jsonrpc |-> "2.0", method |-> "tools/call", params |-> Undefined,
               body |-> Undefined, id |-> "1", result |-> Undefined]
\* SecureMcpServer._normalizeRequest: the object the validator presents to the
\* pipeline.  A fresh id is Math.random().toString(36); in case 4 the params
\* of the new object may be the request itself.
_normalizeRequest(request) ==
  IF request.jsonrpc # Undefined /\ request.method # Undefined THEN request
  ELSE IF request.method # Undefined /\ request.params # Undefined
  THEN [jsonrpc |-> "2.0", method |-> _mapSdkMethod(request.method),
        params |-> request.params, body |-> Undefined,
        id |-> IF request.id = Undefined THEN "random" ELSE request.id,
        result |-> Undefined]
  ELSE IF request.body # Undefined THEN BodyObject
  ELSE [jsonrpc |-> "2.0",
        method |-> IF request.method = Undefined THEN "unknown" ELSE request.method,
        params |-> IF request.params = Undefined THEN "request" ELSE request.params,
        body |-> Undefined,
        id |-> IF request.id = Undefined THEN "random" ELSE request.id,
        result |-> Undefined]

\* _forwardToProtocol(message, extra): message m of the inbox, whose value is
\* message, is given to the protocol
_forwardToProtocolMut(m, message) ==
  /\ forwarded' = Append(forwarded, m)
  /\ delivered' = Append(delivered, _normalizeRequest(message))
_forwardToProtocol(m, message) ==
  /\ forwarded' = Append(forwarded, m)
  /\ delivered' = Append(delivered, message)

\* if (!validationResult.allowed)
IsBlockedMut(res) == ~res.allowed /\ res.severity = "CRITICAL"
IsBlocked(res) == ~res.allowed

\* createSanitizedErrorResponse: id: messageId ?? null
ErrorResponseIdMut(requestId) == "null"
ErrorResponseId(requestId) == IF requestId = Undefined THEN "null" ELSE requestId

Receive(message) ==
  /\ Len(inbox) < MaxMsgs
  /\ inbox' = Append(inbox, message)
  /\ layerPos' = Append(layerPos, 1)
  /\ validationResult' = Append(validationResult, NoResult)
  /\ verdict' = Append(verdict, "none")
  /\ IF _getMessageType(message) = "response"
     THEN /\ _forwardToProtocol(Len(inbox) + 1, message)
          /\ handler' = Append(handler, "done")
     ELSE /\ handler' = Append(handler, "validating")
          /\ UNCHANGED <<forwarded, delivered>>
  /\ UNCHANGED <<enabled, sentResponses, onErrorCalls, pipelineHistory>>
  /\ UNCHANGED transportFrame

(***************************************************************************)
(* One iteration of the loop of ValidationPipeline.validate: the next      *)
(* enabled layer's validate runs and answers with outcome o.  The layer    *)
(* index that ran is i; the history of the call is kept by RunLayerH.      *)
(***************************************************************************)
Verdict(res) == IF res.passed /\ res.allowed THEN "allowed" ELSE "blocked"

RunLayerCore(m, o, i) ==
  /\ handler[m] = "validating"
  /\ i # 0
  /\ i = NextEnabled(layerPos[m])
  /\ IF o.kind = "throw"
     THEN /\ validationResult' = [validationResult EXCEPT ![m] = errorResult(i)]
          /\ verdict' = [verdict EXCEPT ![m] = Verdict(errorResult(i))]
          /\ handler' = [handler EXCEPT ![m] = "validated"]
          /\ layerPos' = layerPos
     ELSE LET n == normalizedResult(o.raw, i) IN
          IF PipelineReturns(n)
          THEN /\ validationResult' = [validationResult EXCEPT ![m] = n]
               /\ verdict' = [verdict EXCEPT ![m] = Verdict(n)]
               /\ handler' = [handler EXCEPT ![m] = "validated"]
               /\ layerPos' = layerPos
          ELSE /\ layerPos' = [layerPos EXCEPT ![m] = i + 1]
               /\ UNCHANGED <<validationResult, verdict, handler>>
  /\ UNCHANGED <<enabled, inbox, forwarded, delivered, sentResponses,
                 onErrorCalls>>
  /\ UNCHANGED transportFrame

RunLayer(m, o) ==
  /\ RunLayerCore(m, o, NextEnabled(layerPos[m]))
  /\ UNCHANGED pipelineHistory

\* the loop is over: validate returns successResult
PipelineSuccessCore(m) ==
  /\ handler[m] = "validating"
  /\ NextEnabled(layerPos[m]) = 0
  /\ validationResult' = [validationResult EXCEPT ![m] = successResult]
  /\ verdict' = [verdict EXCEPT ![m] = Verdict(successResult)]
  /\ handler' = [handler EXCEPT ![m] = "validated"]
  /\ UNCHANGED <<enabled, inbox, layerPos, forwarded, delivered, sentResponses,
                 onErrorCalls>>
  /\ UNCHANGED transportFrame

PipelineSuccess(m) == PipelineSuccessCore(m) /\ UNCHANGED pipelineHistory

\* the validator throws, before, between or after the layers (or its promise
\* rejects): the catch of _validateMessage answers with a blocking result
ValidatorThrows(m) ==
  /\ handler[m] = "validating"
  /\ validationResult' = [validationResult EXCEPT ![m] = validatorErrorResult]
  /\ verdict' = [verdict EXCEPT ![m] = Verdict(validatorErrorResult)]
  /\ handler' = [handler EXCEPT ![m] = "validated"]
  /\ UNCHANGED <<enabled, inbox, layerPos, forwarded, delivered, sentResponses,
                 onErrorCalls,
                 pipelineHistory>>
  /\ UNCHANGED transportFrame

(***************************************************************************)
(* _handleMessage after the await of _validateMessage, with                *)
(* _sendBlockedResponse; sendThrows says whether transport.send threw.     *)
(* The locals of the call (validationResult, the loop index) end with it.  *)
(***************************************************************************)
Decide(m, sendThrows) ==
  /\ handler[m] = "validated"
  /\ handler' = [handler EXCEPT ![m] = "done"]
  /\ validationResult' = [validationResult EXCEPT ![m] = NoResult]
  /\ layerPos' = [layerPos EXCEPT ![m] = 0]
  /\ IF IsBlocked(validationResult[m])
     THEN /\ UNCHANGED <<forwarded, delivered>>
          /\ IF _getMessageType(inbox[m]) = "request"
             THEN /\ sentResponses' =
                       Append(sentResponses,
                              [id |-> ErrorResponseId(inbox[m].id), for |-> m])
                  /\ onErrorCalls' = IF sendThrows THEN onErrorCalls + 1
                                     ELSE onErrorCalls
             ELSE /\ sendThrows = FALSE
                  /\ UNCHANGED <<sentResponses, onErrorCalls>>
     ELSE /\ sendThrows = FALSE
          /\ _forwardToProtocol(m, inbox[m])
          /\ UNCHANGED <<sentResponses, onErrorCalls>>
  /\ UNCHANGED <<enabled, inbox, verdict, pipelineHistory>>
  /\ UNCHANGED transportFrame

\* a transport that has received nothing yet
TransportInit ==
  /\ inbox = <<>>
  /\ handler = <<>>
  /\ layerPos = <<>>
  /\ validationResult = <<>>
  /\ verdict = <<>>
  /\ forwarded = <<>>
  /\ delivered = <<>>
  /\ sentResponses = <<>>
  /\ onErrorCalls = 0
  /\ invoked = <<>>
  /\ falseAt = <<>>
  /\ thrownAt = <<>>

\* SecureMcpServer._createValidationPipeline builds the four layers without
\* an enabled option, so all are enabled.
Init ==
  /\ enabled = [i \in Layers |-> TRUE]
  /\ TransportInit
  /\ ResInit
  /\ SessInit
  /\ ExtraInit
  /\ CacheInit
  /\ ClockInit
  /\ QuotaInit
  /\ L4Init
  /\ L3Init

Next ==
  \/ \E message \in Messages : Receive(message)
  \/ \E m \in 1..Len(inbox), o \in LayerOutcomes : RunLayer(m, o)
  \/ \E m \in 1..Len(inbox) : PipelineSuccess(m)
  \/ \E m \in 1..Len(inbox) : ValidatorThrows(m)
  \/ \E m \in 1..Len(inbox), sendThrows \in BOOLEAN : Decide(m, sendThrows)

Spec == Init /\ [][Next]_vars

(***************************************************************************)
(* SpecPipeline: pipeline.validate called directly, over any choice of     *)
(* enabled layers, with the history of each call.                          *)
(***************************************************************************)
StartValidate(message) ==
  /\ Len(inbox) < MaxCalls
  /\ inbox' = Append(inbox, message)
  /\ handler' = Append(handler, "validating")
  /\ layerPos' = Append(layerPos, 1)
  /\ validationResult' = Append(validationResult, NoResult)
  /\ verdict' = Append(verdict, "none")
  /\ invoked' = Append(invoked, <<>>)
  /\ falseAt' = Append(falseAt, 0)
  /\ thrownAt' = Append(thrownAt, 0)
  /\ UNCHANGED <<enabled, forwarded, delivered, sentResponses, onErrorCalls>>
  /\ UNCHANGED transportFrame

RunLayerH(m, o) ==
  LET i == NextEnabled(layerPos[m]) IN
  /\ RunLayerCore(m, o, i)
  /\ invoked' = [invoked EXCEPT ![m] = Append(@, i)]
  /\ thrownAt' = [thrownAt EXCEPT ![m] = IF o.kind = "throw" THEN i ELSE @]
  /\ falseAt' = [falseAt EXCEPT ![m] =
                   IF @ = 0 /\ o.kind = "result" /\ ~normalizedResult(o.raw, i).passed
                   THEN i ELSE @]

PipelineSuccessH(m) == PipelineSuccessCore(m) /\ UNCHANGED pipelineHistory

InitPipeline ==
  /\ enabled \in [Layers -> BOOLEAN]
  /\ TransportInit
  /\ ResInit
  /\ SessInit
  /\ ExtraInit
  /\ CacheInit
  /\ ClockInit
  /\ QuotaInit
  /\ L4Init
  /\ L3Init

NextPipeline ==
  \/ \E message \in Messages : StartValidate(message)
  \/ \E m \in 1..Len(inbox), o \in LayerOutcomes : RunLayerH(m, o)
  \/ \E m \in 1..Len(inbox) : PipelineSuccessH(m)

SpecPipeline == InitPipeline /\ [][NextPipeline]_vars

(***************************************************************************)
(* Claims about SecureTransport and ValidationPipeline.                    *)
(***************************************************************************)
Arrived == 1..Len(inbox)
InSeq(x, s) == \E k \in 1..Len(s) : s[k] = x
Last(s) == s[Len(s)]
ResponsesFor(m) == {k \in 1..Len(sentResponses) : sentResponses[k].for = m}

\* C1: every message handed to the protocol's onmessage is a response or
\* was given an allowing result by the validator; a request or notification
\* whose validation result is blocking is never forwarded.
C1_ForwardedOnlyIfAllowed ==
  /\ \A k \in 1..Len(forwarded) :
        \/ _getMessageType(inbox[forwarded[k]]) = "response"
        \/ verdict[forwarded[k]] = "allowed"
  /\ \A m \in Arrived :
        (/\ _getMessageType(inbox[m]) \in {"request", "notification"}
         /\ verdict[m] = "blocked") => ~InSeq(m, forwarded)

\* a blocked request and a blocked notification were dropped while an
\* allowed request was forwarded
C1_Witness ==
  \E m1, m2 \in Arrived :
    /\ _getMessageType(inbox[m1]) \in {"request", "notification"}
    /\ verdict[m1] = "blocked" /\ handler[m1] = "done"
    /\ _getMessageType(inbox[m2]) = "request"
    /\ verdict[m2] = "allowed" /\ InSeq(m2, forwarded)

\* C2: pipeline.validate runs the enabled layers in list order and returns
\* the result of the first layer whose result has passed = false; no layer
\* after that one is invoked for the message.
C2_FirstFailingLayerWins ==
  \A m \in Arrived :
    /\ \A k \in 1..Len(invoked[m]) :
          /\ enabled[invoked[m][k]]
          /\ k > 1 => invoked[m][k - 1] < invoked[m][k]
          /\ \A j \in Layers :
                (enabled[j] /\ j < invoked[m][k]) => InSeq(j, invoked[m])
    /\ falseAt[m] # 0 =>
          /\ Last(invoked[m]) = falseAt[m]
          /\ handler[m] = "validated"
          /\ ~validationResult[m].passed
          /\ validationResult[m].layerName = getName(falseAt[m])

\* C3: an error response is sent exactly when a message classified as a
\* request is blocked: one response per blocked request, carrying the
\* request's id (null for a null id); none for a blocked notification, an
\* allowed message or a response.
C3_ErrorResponseIffBlockedRequest ==
  /\ \A m \in Arrived :
        (/\ handler[m] = "done"
         /\ _getMessageType(inbox[m]) = "request"
         /\ verdict[m] = "blocked")
        => /\ Cardinality(ResponsesFor(m)) = 1
           /\ \A k \in ResponsesFor(m) :
                 sentResponses[k].id =
                    (IF inbox[m].id = Undefined THEN "null" ELSE inbox[m].id)
  /\ \A k \in 1..Len(sentResponses) :
        LET m == sentResponses[k].for IN
        /\ m \in Arrived
        /\ _getMessageType(inbox[m]) = "request"
        /\ verdict[m] = "blocked"
        /\ handler[m] = "done"

\* a blocked request with id 1 got its response, and a blocked notification
\* and an allowed request were finished without one
C3_Witness ==
  /\ \E m \in Arrived :
        /\ inbox[m].id = "1" /\ _getMessageType(inbox[m]) = "request"
        /\ verdict[m] = "blocked" /\ handler[m] = "done"
        /\ \E k \in ResponsesFor(m) : sentResponses[k].id = "1"
  /\ \E m \in Arrived :
        /\ handler[m] = "done" /\ ResponsesFor(m) = {}
        /\ \/ _getMessageType(inbox[m]) = "notification" /\ verdict[m] = "blocked"
           \/ verdict[m] = "allowed"

FullwidthDot == "U+FF0E"

Letters == <<"a", "b", "c", "d", "e", "f", "g", "h", "i", "j", "k", "l", "m",
             "n", "o", "p", "q", "r", "s", "t", "u", "v", "w", "x", "y", "z">>
Digits == <<"0", "1", "2", "3", "4", "5", "6", "7", "8", "9">>

\* String.prototype.charCodeAt for the characters of the model
charCodeAt(c) ==
  IF \E i \in 1..26 : Letters[i] = c
  THEN 96 + (CHOOSE i \in 1..26 : Letters[i] = c)
  ELSE IF \E i \in 1..10 : Digits[i] = c
  THEN 47 + (CHOOSE i \in 1..10 : Digits[i] = c)
  ELSE CASE c = "\"" -> 34 [] c = "," -> 44 [] c = "." -> 46 [] c = "/" -> 47
         [] c = ":" -> 58 [] c = "{" -> 123 [] c = "}" -> 125
         [] c = FullwidthDot -> 65294

JsonString(s) == [t |-> "str", v |-> s]
JsonNumber(n) == [t |-> "num", v |-> n]
JsonObject(pairs) == [t |-> "obj", v |-> pairs]

\* Object.keys(obj), "key in obj" and obj[key]
ObjectKeys(pairs) == [i \in 1..Len(pairs) |-> pairs[i][1]]
HasOwn(pairs, key) == \E i \in 1..Len(pairs) : pairs[i][1] = key
GetOwn(pairs, key) == pairs[CHOOSE i \in 1..Len(pairs) : pairs[i][1] = key][2]

\* the order Array.prototype.sort gives strings: by UTF-16 code units
RECURSIVE CodeUnitLess(_, _)
CodeUnitLess(a, b) ==
  IF a = <<>> THEN b # <<>>
  ELSE IF b = <<>> THEN FALSE
  ELSE IF charCodeAt(Head(a)) # charCodeAt(Head(b))
  THEN charCodeAt(Head(a)) < charCodeAt(Head(b))
  ELSE CodeUnitLess(Tail(a), Tail(b))

RECURSIVE NumberToString(_)
NumberToString(n) ==
  IF n < 10 THEN <<Digits[n + 1]>>
  ELSE NumberToString(n \div 10) \o <<Digits[(n % 10) + 1]>>

\* none of the model's characters is escaped inside a JSON string
Quote(s) == <<"\"">> \o s \o <<"\"">>

NoReplacer == [on |-> FALSE, keys |-> <<>>]
ArrayReplacer(keys) == [on |-> TRUE, keys |-> keys]

(***************************************************************************)
(* JSON.stringify(value, replacer).  With an array replacer the property   *)
(* list of EVERY object, nested ones included, is the replacer's list:     *)
(* only the keys in it are written, in its order.                          *)
(***************************************************************************)
RECURSIVE JSONstringify(_, _), SerializeProperties(_, _, _, _)
SerializeProperties(pairs, K, replacer, first) ==
  IF K = <<>> THEN <<>>
  ELSE IF HasOwn(pairs, Head(K))
  THEN (IF first THEN <<>> ELSE <<",">>)
       \o Quote(Head(K)) \o <<":">>
       \o JSONstringify(GetOwn(pairs, Head(K)), replacer)
       \o SerializeProperties(pairs, Tail(K), replacer, FALSE)
  ELSE SerializeProperties(pairs, Tail(K), replacer, first)
JSONstringify(value, replacer) ==
  IF value.t = "str" THEN Quote(value.v)
  ELSE IF value.t = "num" THEN NumberToString(value.v)
  ELSE <<"{">>
       \o SerializeProperties(value.v,
                              IF replacer.on THEN replacer.keys
                              ELSE ObjectKeys(value.v),
                              replacer, TRUE)
       \o <<"}">>

\* the texts of the keys and of the fixed values of a message
Text ==
  [jsonrpc |-> <<"j", "s", "o", "n", "r", "p", "c">>,
   id |-> <<"i", "d">>,
   method |-> <<"m", "e", "t", "h", "o", "d">>,
   params |-> <<"p", "a", "r", "a", "m", "s">>,
   name |-> <<"n", "a", "m", "e">>,
   arguments |-> <<"a", "r", "g", "u", "m", "e", "n", "t", "s">>,
   path |-> <<"p", "a", "t", "h">>,
   version |-> <<"2", ".", "0">>,
   toolsCall |-> <<"t", "o", "o", "l", "s", "/", "c", "a", "l", "l">>]

\* the tool names and the path arguments of the model's tools/call messages
ToolNameTexts == {<<"t", "a">>, <<"t", "b">>}
PathTexts == {<<"a">>, <<".">>, <<FullwidthDot>>}

\* The messages given to L2: {jsonrpc, id, method?, params?} with
\* params = {name, arguments: {path}}.
CacheMessages ==
  {msg \in [method : {Undefined, "tools/call"}, id : {1, 2},
            hasParams : BOOLEAN, name : ToolNameTexts, path : PathTexts] :
     ~msg.hasParams => (msg.name = <<"t", "a">> /\ msg.path = <<"a">>)}

ParamsOf(msg) ==
  JsonObject(<< <<Text.name, JsonString(msg.name)>>,
                <<Text.arguments,
                  JsonObject(<< <<Text.path, JsonString(msg.path)>> >>)>> >>)

MessageJson(msg) ==
  JsonObject(<< <<Text.jsonrpc, JsonString(Text.version)>>,
                <<Text.id, JsonNumber(msg.id)>> >>
             \o (IF msg.method = Undefined THEN <<>>
                 ELSE << <<Text.method, JsonString(Text.toolsCall)>> >>)
             \o (IF msg.hasParams THEN << <<Text.params, ParamsOf(msg)>> >>
                 ELSE <<>>))

(***************************************************************************)
(* hashObject: hash = ((hash << 5) - hash) + char, kept to 32 bits, over   *)
(* JSON.stringify(obj, Object.keys(obj).sort()).  The 32-bit value is the  *)
(* pair of its 16-bit halves <<hi, lo>>.                                   *)
(***************************************************************************)
RECURSIVE HashChars(_, _, _)
HashChars(str, hi, lo) ==
  IF str = <<>> THEN <<hi, lo>>
  ELSE LET low == 31 * lo + charCodeAt(Head(str)) IN
       HashChars(Tail(str), (31 * hi + (low \div 65536)) % 65536, low % 65536)

hashObject(hasParams, obj) ==
  IF ~hasParams THEN [kind |-> "undefined", hash |-> <<0, 0>>]
  ELSE [kind |-> "object",
        hash |-> HashChars(
                   JSONstringify(obj,
                     ArrayReplacer(SortSeq(ObjectKeys(obj.v), CodeUnitLess))),
                   0, 0)]

\* JSON.stringify({method, paramsHash, size}) is one-to-one on this record
getMessageCacheKey(msg) ==
  [method |-> IF msg.method = Undefined THEN "unknown" ELSE msg.method,
   paramsHash |-> hashObject(msg.hasParams, ParamsOf(msg)),
   size |-> Len(JSONstringify(MessageJson(msg), NoReplacer))]

(***************************************************************************)
(* canonicalizeString.  A text is a sequence of characters.  The texts of  *)
(* the model hold no backslash, no "&", no whitespace and no zero-width    *)
(* character, and URL decoding cannot surface one (the only octets they    *)
(* encode are %25 and %55), so of the seven steps only the two             *)
(* normalizeUnicode passes and decodeUrlsCanonical can change them.        *)
(***************************************************************************)
normalizeUnicode(s) ==
  [i \in 1..Len(s) |-> IF s[i] = FullwidthDot THEN "." ELSE s[i]]

\* [0-9A-F] under the i flag
HexDigits ==
  {"0", "1", "2", "3", "4", "5", "6", "7", "8", "9",
   "a", "b", "c", "d", "e", "f", "A", "B", "C", "D", "E", "F"}

\* String.prototype.includes
includes(s, sub) ==
  \E i \in 1..(Len(s) - Len(sub) + 1) : SubSeq(s, i, i + Len(sub) - 1) = sub

\* does prefix followed by nhex hexadecimal digits start the text s
MatchesAt(s, prefix, nhex) ==
  /\ Len(s) >= Len(prefix) + nhex
  /\ SubSeq(s, 1, Len(prefix)) = prefix
  /\ \A i \in 1..nhex : s[Len(prefix) + i] \in HexDigits

\* the text before the first "%" of s (all of s when it has none), and the
\* text from that "%" on
BeforePercent(s) ==
  IF \E i \in 1..Len(s) : s[i] = "%"
  THEN SubSeq(s, 1, (CHOOSE i \in 1..Len(s) :
                       s[i] = "%" /\ \A j \in 1..(i - 1) : s[j] # "%") - 1)
  ELSE s
FromPercent(s) == SubSeq(s, Len(BeforePercent(s)) + 1, Len(s))

\* s.replace(/prefix([0-9A-F]{nhex})/gi, 'repl$1'): the matches are taken
\* from left to right and do not overlap; every prefix starts with "%"
RECURSIVE ReplaceAll(_, _, _, _)
ReplaceAll(s, prefix, nhex, repl) ==
  LET r == FromPercent(s)
  IN IF r = <<>> THEN s
     ELSE BeforePercent(s) \o
          (IF MatchesAt(r, prefix, nhex)
           THEN repl \o SubSeq(r, Len(prefix) + 1, Len(prefix) + nhex)
                     \o ReplaceAll(SubSeq(r, Len(prefix) + nhex + 1, Len(r)),
                                   prefix, nhex, repl)
           ELSE <<"%">> \o ReplaceAll(Tail(r), prefix, nhex, repl))

\* the tokens decodeSingleUrlEncoding rewrites, with their replacements
HighRiskTokens ==
  {[token |-> <<"%", "2", "e">>, char |-> "."],
   [token |-> <<"%", "2", "f">>, char |-> "/"]}

\* one pass of rewrites of the high-risk tokens
RECURSIVE decodeSingleUrlEncoding(_)
decodeSingleUrlEncoding(s) ==
  LET r == FromPercent(s)
  IN IF r = <<>> THEN s
     ELSE BeforePercent(s) \o
          (IF \E t \in HighRiskTokens : MatchesAt(r, t.token, 0)
           THEN LET t == CHOOSE x \in HighRiskTokens : MatchesAt(r, x.token, 0)
                IN <<t.char>> \o decodeSingleUrlEncoding(SubSeq(r, 4, Len(r)))
           ELSE <<"%">> \o decodeSingleUrlEncoding(Tail(r)))

\* the characters of the octets the model's texts encode
OctetChar == (<<"2", "5">> :> "%") @@ (<<"5", "5">> :> "U")

\* decodeURIComponent succeeds when every "%" starts a well-formed escape
WellFormedEscapes(s) ==
  \A i \in 1..Len(s) :
    s[i] = "%" => i + 2 <= Len(s) /\ SubSeq(s, i + 1, i + 2) \in DOMAIN OctetChar

RECURSIVE decodeURIComponent(_)
decodeURIComponent(s) ==
  LET r == FromPercent(s)
  IN IF r = <<>> THEN s
     ELSE BeforePercent(s) \o <<OctetChar[SubSeq(r, 2, 3)]>>
                           \o decodeURIComponent(SubSeq(r, 4, Len(r)))

\* decodeURIComponent, or the input when it throws
decodeURIComponentSafe(s) ==
  IF WellFormedEscapes(s) THEN decodeURIComponent(s) ELSE s

\* the default of decodeUrlsCanonical's maxIterations
maxIterations == 8

\* the collapses of the encodings of the percent sign
CollapsePercent(decoded) ==
  LET d1 == IF includes(decoded, <<"%", "2", "5">>)
            THEN ReplaceAll(decoded, <<"%", "2", "5">>, 2, <<"%">>)
            ELSE decoded
      d2 == IF includes(d1, <<"%", "2", "5", "2">>)
            THEN ReplaceAll(d1, <<"%", "2", "5", "2">>, 1, <<"%", "2">>)
            ELSE d1
  IN IF includes(d2, <<"%", "2", "5", "2", "5">>)
     THEN ReplaceAll(d2, <<"%", "2", "5", "2", "5">>, 1, <<"%", "2", "5">>)
     ELSE d2

\* the while loop of decodeUrlsCanonical; prev is <<"null">> before the
\* first iteration
RECURSIVE UrlLoop(_, _, _)
UrlLoop(decoded, prev, iterations) ==
  IF decoded = prev \/ iterations >= maxIterations THEN decoded
  ELSE LET beforeSingle == CollapsePercent(decoded)
           single == decodeSingleUrlEncoding(beforeSingle)
           step == decodeURIComponentSafe(single)
       IN IF step = single /\ single = beforeSingle THEN single
          ELSE UrlLoop(step, decoded, iterations + 1)

decodeUrlsCanonical(input) == UrlLoop(input, <<"null">>, 0)

canonicalizeString(input) ==
  normalizeUnicode(decodeUrlsCanonical(normalizeUnicode(input)))

canonicalizeFromMessage(msg) ==
  canonicalizeString(JSONstringify(MessageJson(msg), NoReplacer))

\* options.cacheMaxSize of the content layer
cacheMaxSize == 2

(***************************************************************************)
(* ContentValidationLayer.validate up to the content checks: the string    *)
(* getSecureProcessedContent returns is what every check inspects.         *)
(***************************************************************************)
\* getSecureProcessedContent without the clear at the cap
getSecureProcessedContentMut(message) ==
  LET messageKey == getMessageCacheKey(message) IN
  /\ l2Message' = <<message>>
  /\ l2Cleared' = FALSE
  /\ IF \E e \in processedContentCache : e.key = messageKey
     THEN /\ l2Processed' =
               (CHOOSE e \in processedContentCache : e.key = messageKey).value
          /\ UNCHANGED processedContentCache
     ELSE LET processed == canonicalizeFromMessage(message) IN
          /\ processedContentCache' =
               processedContentCache \cup {[key |-> messageKey, value |-> processed]}
          /\ l2Processed' = processed
  /\ UNCHANGED cacheFrame
getSecureProcessedContent(message) ==
  LET messageKey == getMessageCacheKey(message)
      hit == \E e \in processedContentCache : e.key = messageKey
      full == Cardinality(processedContentCache) >= cacheMaxSize IN
  /\ l2Message' = <<message>>
  /\ l2Cleared' = (~hit /\ full)
  /\ IF hit
     THEN /\ l2Processed' =
               (CHOOSE e \in processedContentCache : e.key = messageKey).value
          /\ UNCHANGED processedContentCache
     ELSE LET processed == canonicalizeFromMessage(message)
              kept == IF full THEN {} ELSE processedContentCache IN
          /\ processedContentCache' =
               kept \cup {[key |-> messageKey, value |-> processed]}
          /\ l2Processed' = processed
  /\ UNCHANGED cacheFrame

InitCache ==
  /\ enabled = [i \in Layers |-> TRUE]
  /\ TransportInit
  /\ ResInit
  /\ SessInit
  /\ ExtraInit
  /\ CacheInit
  /\ ClockInit
  /\ QuotaInit
  /\ L4Init
  /\ L3Init

NextCache == \E message \in CacheMessages : getSecureProcessedContent(message)

SpecCache == InitCache /\ [][NextCache]_vars

\* C5: the string L2's content checks inspect for a message is the
\* canonical form of that same message, whatever the same L2 instance
\* validated before: a cache hit never yields the canonical string of a
\* different message.
C5_InspectsOwnCanonicalForm ==
  l2Message # <<>> => l2Processed = canonicalizeFromMessage(l2Message[1])

(***************************************************************************)
(* SpecQuota: InMemoryQuotaProvider.  checkWindow and incrementAndCheck    *)
(* are functions of the counters: they yield the new counters and whether  *)
(* the call passed.                                                        *)
(***************************************************************************)
\* constructor: clockSkewMs = 1000
clockSkewMs == 1000

\* the windowMs incrementAndCheck passes for each bucket
WindowMs(bucket) == IF bucket = "minute" THEN 60000 ELSE 3600000

\* number of incrementAndCheck calls in one behaviour of SpecQuota
MaxQuotaCalls == 4
\* number of clock advances in one behaviour of SpecQuota
MaxQuotaTicks == 3
\* the clock advances of SpecQuota: within a window, to the last instant of
\* a minute window (with the skew), and the same for an hour window
QuotaTickSteps == {1, 61000, 3601000}

ensureEntry(cs, key, bucket, t) ==
  IF cs[key][bucket].present THEN cs[key][bucket]
  ELSE [present |-> TRUE, count |-> 0, windowStart |-> t]

checkWindowMut(cs, key, bucket, limit, windowMs, t) ==
  LET entry == ensureEntry(cs, key, bucket, t)
      fresh == IF t - entry.windowStart > windowMs + clockSkewMs
               THEN [entry EXCEPT !.count = 0, !.windowStart = t]
               ELSE entry
      counted == [fresh EXCEPT !.count = @ + 1]
  IN [counters |-> [cs EXCEPT ![key][bucket] = counted],
      passed |-> ~(fresh.count > limit)]
checkWindowNoSkew(cs, key, bucket, limit, windowMs, t) ==
  LET entry == ensureEntry(cs, key, bucket, t)
      fresh == IF t - entry.windowStart > windowMs
               THEN [entry EXCEPT !.count = 0, !.windowStart = t]
               ELSE entry
      counted == [fresh EXCEPT !.count = @ + 1]
  IN [counters |-> [cs EXCEPT ![key][bucket] = counted],
      passed |-> ~(counted.count > limit)]
checkWindow(cs, key, bucket, limit, windowMs, t) ==
  LET entry == ensureEntry(cs, key, bucket, t)
      fresh == IF t - entry.windowStart > windowMs + clockSkewMs
               THEN [entry EXCEPT !.count = 0, !.windowStart = t]
               ELSE entry
      counted == [fresh EXCEPT !.count = @ + 1]
  IN [counters |-> [cs EXCEPT ![key][bucket] = counted],
      passed |-> ~(counted.count > limit)]

\* one bucket pair for every key
incrementAndCheckShared(cs, key, limits, t) ==
  LET minuteResult ==
        IF limits.minute # 0
        THEN checkWindow(cs, "tool:calc", "minute", limits.minute, WindowMs("minute"), t)
        ELSE [counters |-> cs, passed |-> TRUE]
  IN IF ~minuteResult.passed THEN minuteResult
     ELSE IF limits.hour # 0
     THEN checkWindow(minuteResult.counters, "tool:calc", "hour", limits.hour,
                      WindowMs("hour"), t)
     ELSE [counters |-> minuteResult.counters, passed |-> TRUE]
incrementAndCheck(cs, key, limits, t) ==
  LET minuteResult ==
        IF limits.minute # 0
        THEN checkWindow(cs, key, "minute", limits.minute, WindowMs("minute"), t)
        ELSE [counters |-> cs, passed |-> TRUE]
  IN IF ~minuteResult.passed THEN minuteResult
     ELSE IF limits.hour # 0
     THEN checkWindow(minuteResult.counters, key, "hour", limits.hour,
                      WindowMs("hour"), t)
     ELSE [counters |-> minuteResult.counters, passed |-> TRUE]

\* a sweep whose expiry is one window, without the skew
sweepMut(cs, t) ==
  [key \in QuotaKeys |->
     LET Stale(b) == \/ ~cs[key][b].present
                     \/ t - cs[key][b].windowStart > WindowMs(b)
     IN [b \in Buckets |-> IF Stale(b) THEN NoBucket ELSE cs[key][b]]]
\* sweep(now): a bucket is stale when it is missing or older than two windows
sweep(cs, t) ==
  [key \in QuotaKeys |->
     LET Stale(b) == \/ ~cs[key][b].present
                     \/ t - cs[key][b].windowStart > 2 * WindowMs(b) + clockSkewMs
     IN [b \in Buckets |-> IF Stale(b) THEN NoBucket ELSE cs[key][b]]]

\* History of the windows, kept from the clock alone: a bucket's window
\* opens at the first call on the key and lasts windowMs + clockSkewMs; the
\* first call after that opens the next one.
WindowAfterCall(w, bucket, t, passed) ==
  LET opens == ~w.open \/ t - w.start > WindowMs(bucket) + clockSkewMs
      base == IF opens THEN [open |-> TRUE, start |-> t, calls |-> 0, passes |-> 0]
              ELSE w
  IN [base EXCEPT !.calls = @ + 1,
                  !.passes = IF passed THEN @ + 1 ELSE @]

QuotaCall(key) ==
  /\ quotaCalls < MaxQuotaCalls
  /\ LET res == incrementAndCheck(counters, key, quotaLimits[key], now)
         after == [b \in Buckets |->
                     WindowAfterCall(quotaWindows[key][b], b, now, res.passed)]
     IN /\ counters' = res.counters
        /\ quotaWindows' = [quotaWindows EXCEPT ![key] = after]
        /\ quotaLast' = <<[key |-> key, passed |-> res.passed,
                           ordinal |-> [b \in Buckets |-> after[b].calls]]>>
  /\ quotaCalls' = quotaCalls + 1
  /\ UNCHANGED <<quotaLimits, clockVars>>
  /\ UNCHANGED quotaFrame

\* the provider's sweep timer fires
QuotaSweep ==
  /\ counters' = sweep(counters, now)
  /\ UNCHANGED <<quotaLimits, quotaCalls, quotaWindows, quotaLast, clockVars>>
  /\ UNCHANGED quotaFrame

\* time passes
Tick(d, maxTicks) ==
  /\ ticks < maxTicks
  /\ now' = now + d
  /\ ticks' = ticks + 1
  /\ UNCHANGED clockFrame

\* the limits of the model: each of a key's buckets unlimited, 1 or 2 (minute)
\* and unlimited, 1 or 3 (hour); the second key has a per-minute limit only
InitQuota ==
  /\ enabled = [i \in Layers |-> TRUE]
  /\ TransportInit
  /\ ResInit
  /\ SessInit
  /\ ExtraInit
  /\ CacheInit
  /\ ClockInit
  /\ counters = [k \in QuotaKeys |-> [b \in Buckets |-> NoBucket]]
  /\ \E minute \in {0, 1, 2}, hour \in {0, 1, 3} :
        quotaLimits = [k \in QuotaKeys |->
                         IF k = "tool:calc" THEN [minute |-> minute, hour |-> hour]
                         ELSE [minute |-> 1, hour |-> 0]]
  /\ quotaCalls = 0
  /\ quotaWindows = [k \in QuotaKeys |-> [b \in Buckets |-> NoWindow]]
  /\ quotaLast = <<>>
  /\ L4Init
  /\ L3Init

NextQuota ==
  \/ \E key \in QuotaKeys : QuotaCall(key)
  \/ QuotaSweep
  \/ \E d \in QuotaTickSteps : Tick(d, MaxQuotaTicks)

SpecQuota == InitQuota /\ [][NextQuota]_vars

OtherBucket(b) == IF b = "minute" THEN "hour" ELSE "minute"

\* C6 (as stated): for every quota key and every configured limit L, within
\* one window exactly the first L calls of incrementAndCheck on the key pass
\* and every further call in that window fails.
C6_ExactlyFirstLPass ==
  quotaLast # <<>> =>
    LET c == quotaLast[1] IN
    \A b \in Buckets :
      quotaLimits[c.key][b] # 0 =>
        (c.passed <=> c.ordinal[b] <= quotaLimits[c.key][b])

\* C6 (amended): within one window of a bucket with limit L at most L calls
\* on the key pass; when that bucket is the only one configured for the key,
\* exactly the first L calls of the window pass and every further one fails.
C6_AtMostLPassPerWindow ==
  /\ \A k \in QuotaKeys, b \in Buckets :
        quotaLimits[k][b] # 0 => quotaWindows[k][b].passes <= quotaLimits[k][b]
  /\ quotaLast # <<>> =>
        LET c == quotaLast[1] IN
        \A b \in Buckets :
          (quotaLimits[c.key][b] # 0 /\ quotaLimits[c.key][OtherBucket(b)] = 0) =>
            (c.passed <=> c.ordinal[b] <= quotaLimits[c.key][b])

\* with a per-minute limit of 2 alone, the third call of a window was
\* rejected after both earlier ones passed
C6_Witness ==
  /\ quotaLimits["tool:calc"] = [minute |-> 2, hour |-> 0]
  /\ quotaLast # <<>>
  /\ quotaLast[1].key = "tool:calc"
  /\ ~quotaLast[1].passed
  /\ quotaLast[1].ordinal["minute"] = 3
  /\ quotaWindows["tool:calc"]["minute"].passes = 2

(***************************************************************************)
(* SpecL4: SemanticsValidationLayer.validate.  Each check is a function    *)
(* of the message; the two that count quota also yield the new counters.   *)
(***************************************************************************)
\* number of pipeline.validate calls in one behaviour of SpecL4
MaxL4Calls == 4
\* number of clock advances in one behaviour of SpecL4
MaxL4Ticks == 2
\* the clock advances of SpecL4: within a window, and past a minute window
L4TickSteps == {1, 61001}

\* ValidationLayer.createSuccessResult and createFailureResult
\* a success result built with the severity of the pipeline's successResult
SuccessResultMut == [passed |-> TRUE, severity |-> "NONE", violationType |-> "null"]
SuccessResult == [passed |-> TRUE, severity |-> "LOW", violationType |-> "null"]
FailureResult(severity, violationType) ==
  [passed |-> FALSE, severity |-> severity, violationType |-> violationType]

\* getDefaultPolicies().methodSpec.shape and the required params of a method
KnownMethods == {"initialize", "ping", "tools/list", "tools/call",
                 "resources/list", "resources/read", "prompts/list",
                 "prompts/get"}
HasRequired(msg) ==
  CASE msg.method = "tools/call" -> msg.name # Undefined
    [] msg.method = "resources/read" -> msg.uri # Undefined
    [] OTHER -> TRUE

checkMethodSemantics(msg) ==
  IF msg.method = Undefined THEN FailureResult("HIGH", "INVALID_MCP_METHOD")
  ELSE IF msg.method \notin KnownMethods
  THEN FailureResult("MEDIUM", "INVALID_MCP_METHOD")
  ELSE IF ~HasRequired(msg) THEN FailureResult("MEDIUM", "MISSING_REQUIRED_PARAM")
  ELSE SuccessResult

\* validateToolCall of semantic-policies.js, for argsShape {expression: string}
validateToolContract(t, msg) ==
  IF msg.args = "notobject" THEN FailureResult("MEDIUM", "INVALID_TOOL_ARGUMENTS")
  ELSE IF msg.args = "missing" THEN FailureResult("MEDIUM", "MISSING_REQUIRED_PARAM")
  ELSE IF msg.args = "wrongtype"
  THEN FailureResult("MEDIUM", "INVALID_TOOL_ARGUMENTS")
  ELSE IF t.maxArgsSize # 0 /\ msg.bytes > t.maxArgsSize
  THEN FailureResult("MEDIUM", "ARGS_EGRESS_LIMIT")
  ELSE SuccessResult

\* quotaLimits of checkToolCall: this.quotas is {} unless configured, so a
\* limit the tool does not give is not configured
ToolQuotaLimits(t) == [minute |-> t.quotaPerMinute, hour |-> t.quotaPerHour]

\* params.name values that are not strings, and: !name || typeof name !== 'string'
NonStringNames == {"<7>"}
NameGiven(name) == name \notin {Undefined, ""} \cup NonStringNames

checkToolCallOpen(msg, cs, t) ==
  IF ~NameGiven(msg.name)
  THEN [result |-> FailureResult("MEDIUM", "MISSING_REQUIRED_PARAM"), counters |-> cs]
  ELSE IF msg.name # tool.name
  THEN [result |-> SuccessResult, counters |-> cs]
  ELSE [result |-> validateToolContract(tool, msg), counters |-> cs]
checkToolCallMut(msg, cs, t) ==
  IF ~NameGiven(msg.name)
  THEN [result |-> FailureResult("MEDIUM", "MISSING_REQUIRED_PARAM"), counters |-> cs]
  ELSE IF msg.name # tool.name
  THEN [result |-> FailureResult("HIGH", "TOOL_NOT_ALLOWED"), counters |-> cs]
  ELSE IF ~validateToolContract(tool, msg).passed
  THEN [result |-> validateToolContract(tool, msg), counters |-> cs]
  ELSE LET entry == cs["tool:calc"]["minute"]
           quotaResult == incrementAndCheck(cs, "tool:calc", ToolQuotaLimits(tool), t)
       IN [result |-> IF entry.present /\ entry.count > tool.quotaPerMinute
                      THEN FailureResult("HIGH", "QUOTA_EXCEEDED")
                      ELSE SuccessResult,
           counters |-> quotaResult.counters]
checkToolCall(msg, cs, t) ==
  IF ~NameGiven(msg.name)
  THEN [result |-> FailureResult("MEDIUM", "MISSING_REQUIRED_PARAM"), counters |-> cs]
  ELSE IF msg.name # tool.name
  THEN [result |-> FailureResult("HIGH", "TOOL_NOT_ALLOWED"), counters |-> cs]
  ELSE IF ~validateToolContract(tool, msg).passed
  THEN [result |-> validateToolContract(tool, msg), counters |-> cs]
  ELSE LET quotaResult == incrementAndCheck(cs, "tool:calc", ToolQuotaLimits(tool), t)
       IN [result |-> IF ~quotaResult.passed
                      THEN FailureResult("HIGH", "QUOTA_EXCEEDED")
                      ELSE SuccessResult,
           counters |-> quotaResult.counters]

\* validateResourceAccess is a function of the uri alone: the message says
\* what it answers.  this.quotas['resources/read'] is not configured.
checkResourceRead(msg, cs, t) ==
  IF msg.uri = Undefined
  THEN [result |-> FailureResult("MEDIUM", "MISSING_REQUIRED_PARAM"), counters |-> cs]
  ELSE IF msg.uri = "denied"
  THEN [result |-> FailureResult("HIGH", "RESOURCE_POLICY_VIOLATION"), counters |-> cs]
  ELSE LET quotaResult == incrementAndCheck(cs, "method:resources/read",
                                            [minute |-> 0, hour |-> 0], t)
       IN [result |-> IF ~quotaResult.passed
                      THEN FailureResult("HIGH", "QUOTA_EXCEEDED")
                      ELSE SuccessResult,
           counters |-> quotaResult.counters]

checkSideEffectsAndEgressMut(msg) ==
  IF msg.method # "tools/call" THEN SuccessResult
  ELSE IF ~NameGiven(msg.name) \/ msg.name # tool.name THEN SuccessResult
  ELSE IF /\ tool.sideEffects # "none"
          /\ ~ \/ tool.sideEffects = "read"
               \/ (tool.sideEffects = "write" /\ (policy.allowWrites \/ policy.allowNetwork))
               \/ (tool.sideEffects = "network" /\ policy.allowNetwork)
  THEN FailureResult("HIGH", "SIDE_EFFECT_NOT_ALLOWED")
  ELSE IF msg.bytes * 16 > tool.maxEgressBytes
  THEN FailureResult("MEDIUM", "TOOL_EGRESS_LIMIT")
  ELSE SuccessResult
checkSideEffectsAndEgress(msg) ==
  IF msg.method # "tools/call" THEN SuccessResult
  ELSE IF ~NameGiven(msg.name) \/ msg.name # tool.name THEN SuccessResult
  ELSE IF /\ tool.sideEffects # "none"
          /\ ~ \/ tool.sideEffects = "read"
               \/ (tool.sideEffects = "write" /\ policy.allowWrites)
               \/ (tool.sideEffects = "network" /\ policy.allowNetwork)
  THEN FailureResult("HIGH", "SIDE_EFFECT_NOT_ALLOWED")
  ELSE IF msg.bytes * 16 > tool.maxEgressBytes
  THEN FailureResult("MEDIUM", "TOOL_EGRESS_LIMIT")
  ELSE SuccessResult

\* SemanticsValidationLayer.validate: the result and the counters it leaves
L4validate(msg, cs, t) ==
  LET methodResult == checkMethodSemantics(msg)
      toolResult == IF msg.method = "tools/call" THEN checkToolCall(msg, cs, t)
                    ELSE [result |-> SuccessResult, counters |-> cs]
      resourceResult ==
        IF msg.method = "resources/read" THEN checkResourceRead(msg, cs, t)
        ELSE [result |-> SuccessResult, counters |-> cs]
  IN IF ~methodResult.passed THEN [result |-> methodResult, counters |-> cs]
     ELSE IF ~toolResult.result.passed THEN toolResult
     ELSE IF ~resourceResult.result.passed THEN resourceResult
     ELSE [result |-> checkSideEffectsAndEgress(msg),
           counters |-> IF msg.method = "tools/call" THEN toolResult.counters
                        ELSE resourceResult.counters]

\* pipeline.validate is called for a message: until its L4 step runs the
\* call waits in the earlier layers, which do not touch L4's state; the
\* message counts from the L4 step on
L4Submit ==
  /\ l4Pending + l4Done < MaxL4Calls
  /\ l4Pending' = l4Pending + 1
  /\ UNCHANGED <<tool, policy, l4Done, l4Last, toolWindow, clockVars, quotaVars>>
  /\ UNCHANGED l4Frame

\* whether a message gets as far as the quota check of checkToolCall
ReachesToolQuota(msg) ==
  /\ msg.method = "tools/call"
  /\ msg.name = tool.name
  /\ msg.args = "valid"
  /\ (tool.maxArgsSize = 0 \/ msg.bytes <= tool.maxArgsSize)

\* the L4 step of one waiting call, whose message is msg: validate runs to
\* its end without suspending.  The history counts, in the tool's current
\* window, the calls that reached the quota check and those that passed L4,
\* and keeps how many calls were waiting at this step and at the one before.
L4Step(msg) ==
  /\ l4Pending > 0
  /\ LET res == L4validate(msg, counters, now)
         after == IF ReachesToolQuota(msg)
                  THEN WindowAfterCall(toolWindow, "minute", now, res.result.passed)
                  ELSE toolWindow
     IN /\ counters' = res.counters
        /\ toolWindow' = after
        /\ l4Last' = <<[msg |-> msg, result |-> res.result,
                        concurrent |-> l4Pending,
                        previous |-> IF l4Last = <<>> THEN 0
                                     ELSE l4Last[1].concurrent,
                        ordinal |-> after.calls]>>
  /\ l4Pending' = l4Pending - 1
  /\ l4Done' = l4Done + 1
  /\ UNCHANGED <<tool, policy, clockVars, quotaLimits, quotaCalls, quotaWindows,
                 quotaLast>>
  /\ UNCHANGED l4Frame

\* the registry of the model: the tool's sideEffects, quotaPerMinute (0: not
\* limited) and quotaPerHour, and the host's policy
InitL4 ==
  /\ enabled = [i \in Layers |-> TRUE]
  /\ TransportInit
  /\ ResInit
  /\ SessInit
  /\ ExtraInit
  /\ CacheInit
  /\ ClockInit
  /\ QuotaInit
  /\ L3Init
  /\ \E sideEffects \in {"none", "write"}, perMinute \in {0, 1, 2},
        perHour \in {0, 1} :
        tool = [DefaultTool EXCEPT !.sideEffects = sideEffects,
                                   !.quotaPerMinute = perMinute,
                                   !.quotaPerHour = perHour]
  /\ policy \in [allowWrites : BOOLEAN, allowNetwork : {FALSE}]
  /\ l4Pending = 0
  /\ l4Done = 0
  /\ l4Last = <<>>
  /\ toolWindow = NoWindow

NextL4 ==
  \/ L4Submit
  \/ \E msg \in L4Messages : L4Step(msg)
  \/ QuotaSweep
  \/ \E d \in L4TickSteps : Tick(d, MaxL4Ticks)

SpecL4 == InitL4 /\ [][NextL4]_vars

\* a tools/call message for the registered tool
ForTool(msg) == msg.method = "tools/call" /\ msg.name = tool.name
QuotaExceeded == FailureResult("HIGH", "QUOTA_EXCEEDED")
\* what L4 answers to a call for the tool that it rejects for another reason
\* than the quota
OtherToolRejections ==
  {"INVALID_TOOL_ARGUMENTS", "MISSING_REQUIRED_PARAM", "ARGS_EGRESS_LIMIT",
   "SIDE_EFFECT_NOT_ALLOWED", "TOOL_EGRESS_LIMIT"}

MaxL3Calls == 4
\* number of clock advances in one behaviour of SpecL3
MaxL3Ticks == 3
\* the clock advances of SpecL3: within the burst window, and from there to
\* the edge of the minute window
L3TickSteps == {1000, 59000}

\* the messages of SpecL3: what L3 reads of a message is its method and the
\* length of its serialisation
ProbingMethods == {"admin/list"}
L3Messages ==
  {[method |-> "tools/call", size |-> 100],
   [method |-> "tools/call", size |-> 20001],
   [method |-> "admin/list", size |-> 100],
   [method |-> Undefined, size |-> 20000]}
\* looksLikeProbing, on the methods of L3Messages
looksLikeProbing(method) == method \in ProbingMethods

checkRateWindowMut(cs, key, t, windowMs, limit) ==
  LET created == IF ~cs[key].present
                 THEN [present |-> TRUE, count |-> 0, windowStart |-> t]
                 ELSE cs[key]
      counter == IF t - created.windowStart >= windowMs
                 THEN [created EXCEPT !.count = 0, !.windowStart = t]
                 ELSE created
  IN [counters |-> [cs EXCEPT ![key] = [counter EXCEPT !.count = @ + 1]],
      result |-> IF counter.count > limit
                 THEN FailureResult("HIGH", "RATE_LIMIT_EXCEEDED")
                 ELSE SuccessResult]
checkRateWindow(cs, key, t, windowMs, limit) ==
  LET created == IF ~cs[key].present
                 THEN [present |-> TRUE, count |-> 0, windowStart |-> t]
                 ELSE cs[key]
      reset == IF t - created.windowStart >= windowMs
               THEN [created EXCEPT !.count = 0, !.windowStart = t]
               ELSE created
      counter == [reset EXCEPT !.count = @ + 1]
  IN [counters |-> [cs EXCEPT ![key] = counter],
      result |-> IF counter.count > limit
                 THEN FailureResult("HIGH", "RATE_LIMIT_EXCEEDED")
                 ELSE SuccessResult]

\* minutePassed: whether the per-minute check passed
checkGlobalRateLimit(cs, t) ==
  LET minuteResult == checkRateWindow(cs, "requests-per-minute", t, 60000,
                                      rateLimits.requestsPerMinute)
      hourResult == checkRateWindow(minuteResult.counters, "requests-per-hour",
                                    t, 3600000, rateLimits.requestsPerHour)
  IN IF ~minuteResult.result.passed
     THEN [counters |-> minuteResult.counters, result |-> minuteResult.result,
           minutePassed |-> FALSE]
     ELSE [counters |-> hourResult.counters, result |-> hourResult.result,
           minutePassed |-> TRUE]

\* Array.prototype.filter with r => r.timestamp > bound
NewerThan(rs, bound) ==
  LET Newer(x) == x > bound IN SelectSeq(rs, Newer)

checkBurstActivityMut(rs, t) ==
  LET kept == NewerThan(rs, t - 30000)
      burstRequests == NewerThan(kept, t - 10000)
  IN [recent |-> kept,
      result |-> IF Len(burstRequests) >= rateLimits.burstThreshold
                 THEN FailureResult("HIGH", "BURST_ACTIVITY")
                 ELSE SuccessResult]
checkBurstActivity(rs, t) ==
  LET kept == NewerThan(rs, t - 30000)
      burstRequests == NewerThan(kept, t - 10000)
  IN [recent |-> kept,
      result |-> IF Len(burstRequests) > rateLimits.burstThreshold
                 THEN FailureResult("HIGH", "BURST_ACTIVITY")
                 ELSE SuccessResult]

\* stdDev < 50 && avgInterval < 2000 && avgInterval > 100 over the four
\* intervals of the last five timestamps, in integers: with S their sum the
\* average is S/4 and the variance is the sum of (4d - S)^2 over 64
AutomatedTiming(rs) ==
  /\ Len(rs) >= 5
  /\ LET recent == SubSeq(rs, Len(rs) - 4, Len(rs))
         intervals == [i \in 1..4 |-> recent[i + 1] - recent[i]]
         S == intervals[1] + intervals[2] + intervals[3] + intervals[4]
         Dev(i) == 4 * intervals[i] - S
     IN /\ S < 8000
        /\ S > 400
        /\ \A i \in 1..4 : Dev(i) < 400 /\ Dev(i) > -400
        /\ Dev(1) * Dev(1) + Dev(2) * Dev(2) + Dev(3) * Dev(3)
             + Dev(4) * Dev(4) < 160000

checkBasicAutomation(message, rs) ==
  IF message.size > 20000 THEN FailureResult("MEDIUM", "OVERSIZED_MESSAGE")
  ELSE IF AutomatedTiming(rs) THEN FailureResult("MEDIUM", "AUTOMATED_TIMING")
  ELSE IF message.method # Undefined /\ looksLikeProbing(message.method)
  THEN FailureResult("LOW", "SUSPICIOUS_METHOD")
  ELSE SuccessResult

\* validateBehavior: the result, and the state it leaves
validateBehaviorMut(message, cs, rs, t) ==
  LET rate == checkGlobalRateLimit(cs, t)
      burst == checkBurstActivity(rs, t)
  IN IF ~rate.result.passed
     THEN [counters |-> rate.counters, recent |-> Append(rs, t),
           result |-> rate.result, minutePassed |-> rate.minutePassed]
     ELSE IF ~burst.result.passed
     THEN [counters |-> rate.counters, recent |-> Append(burst.recent, t),
           result |-> burst.result, minutePassed |-> TRUE]
     ELSE [counters |-> rate.counters, recent |-> Append(burst.recent, t),
           result |-> checkBasicAutomation(message, Append(burst.recent, t)),
           minutePassed |-> TRUE]
\* a ring that records only the messages L3 lets through
validateBehaviorUnrecorded(message, cs, rs, t) ==
  LET rate == checkGlobalRateLimit(cs, t)
      burst == checkBurstActivity(Append(rs, t), t)
      result == IF ~rate.result.passed THEN rate.result
                ELSE IF ~burst.result.passed THEN burst.result
                ELSE checkBasicAutomation(message, burst.recent)
  IN [counters |-> rate.counters,
      recent |-> IF result.passed THEN burst.recent ELSE rs,
      result |-> result,
      minutePassed |-> rate.minutePassed]
validateBehavior(message, cs, rs, t) ==
  LET pushed == Append(rs, t)
      rate == checkGlobalRateLimit(cs, t)
      burst == checkBurstActivity(pushed, t)
  IN IF ~rate.result.passed
     THEN [counters |-> rate.counters, recent |-> pushed,
           result |-> rate.result, minutePassed |-> rate.minutePassed]
     ELSE IF ~burst.result.passed
     THEN [counters |-> rate.counters, recent |-> burst.recent,
           result |-> burst.result, minutePassed |-> TRUE]
     ELSE [counters |-> rate.counters, recent |-> burst.recent,
           result |-> checkBasicAutomation(message, burst.recent),
           minutePassed |-> TRUE]

\* pipeline.validate is called for a message: until its L3 step runs the
\* call waits in the earlier layers, which do not touch L3's state
L3Submit ==
  /\ l3Pending + Len(l3Log) < MaxL3Calls
  /\ l3Pending' = l3Pending + 1
  /\ UNCHANGED <<rateLimits, requestCounters, recentRequests, l3Log, l3Batch,
                 minuteWindow, clockVars>>
  /\ UNCHANGED l3Frame

\* History of the per-minute window, kept from the clock alone: it opens at
\* the first request and lasts 60 000 ms; the first request from then on
\* opens the next one.  passes counts the passes of the per-minute check.
MinuteWindowAfter(w, t, passed) ==
  LET opens == ~w.open \/ t - w.start >= 60000
      base == IF opens THEN [open |-> TRUE, start |-> t, calls |-> 0, passes |-> 0]
              ELSE w
  IN [base EXCEPT !.calls = @ + 1,
                  !.passes = IF passed THEN @ + 1 ELSE @]

\* the L3 step of one waiting call, whose message is message: validateBehavior
\* runs to its end without suspending
L3Step(message) ==
  /\ l3Pending > 0
  /\ LET res == validateBehavior(message, requestCounters, recentRequests, now)
     IN /\ requestCounters' = res.counters
        /\ recentRequests' = res.recent
        /\ l3Log' = Append(l3Log, [at |-> now, result |-> res.result,
                                   minutePassed |-> res.minutePassed])
        /\ minuteWindow' = MinuteWindowAfter(minuteWindow, now, res.minutePassed)
  /\ l3Batch' = IF l3Log = <<>> THEN l3Pending ELSE l3Batch
  /\ l3Pending' = l3Pending - 1
  /\ UNCHANGED <<rateLimits, clockVars>>
  /\ UNCHANGED l3Frame

\* the callback of setupCleanup's timer
L3Sweep ==
  /\ recentRequests' = NewerThan(recentRequests, now - 3600000)
  /\ requestCounters' =
       [k \in RateKeys |->
          IF requestCounters[k].present
             /\ now - requestCounters[k].windowStart > 7200000
          THEN NoBucket ELSE requestCounters[k]]
  /\ UNCHANGED <<rateLimits, l3Pending, l3Log, l3Batch, minuteWindow, clockVars>>
  /\ UNCHANGED l3Frame

\* the options of the model: each limit left to its default or set low
InitL3 ==
  /\ enabled = [i \in Layers |-> TRUE]
  /\ TransportInit
  /\ ResInit
  /\ SessInit
  /\ ExtraInit
  /\ CacheInit
  /\ ClockInit
  /\ QuotaInit
  /\ L4Init
  /\ \E options \in [requestsPerMinute : {0, 2}, requestsPerHour : {0, 3},
                     burstThreshold : {0, 1}] :
        rateLimits = RateLimitsOf(options)
  /\ L3Fresh

NextL3 ==
  \/ L3Submit
  \/ \E message \in L3Messages : L3Step(message)
  \/ L3Sweep
  \/ \E d \in L3TickSteps : Tick(d, MaxL3Ticks)

SpecL3 == InitL3 /\ [][NextL3]_vars

BurstActivity == FailureResult("HIGH", "BURST_ACTIVITY")
RateLimitExceeded == FailureResult("HIGH", "RATE_LIMIT_EXCEEDED")
\* the requests, counting the i-th, that reached L3 less than span ms before
\* the i-th did
ReachedWithin(i, span) ==
  {j \in 1..i : l3Log[j].at > l3Log[i].at - span}

\* C8 (as stated): with burst threshold B a message is rejected with
\* BURST_ACTIVITY at HIGH if more than B requests, counting itself, reached
\* L3 within the preceding 10 000 ms, and is not rejected by the burst check
\* otherwise.
C8_BurstIffMoreThanB ==
  \A i \in 1..Len(l3Log) :
    LET n == Cardinality(ReachedWithin(i, 10000))
    IN /\ n <= rateLimits.burstThreshold => l3Log[i].result # BurstActivity
       /\ n > rateLimits.burstThreshold => l3Log[i].result = BurstActivity

\* C8 (amended): a message that passed the rate checks is rejected with
\* BURST_ACTIVITY at HIGH if and only if more than B requests, counting
\* itself, reached L3 within the preceding 10 000 ms; one that did not pass
\* them is rejected with RATE_LIMIT_EXCEEDED and the burst check does not run.
C8_BurstCheckAfterRate ==
  \A i \in 1..Len(l3Log) :
    LET n == Cardinality(ReachedWithin(i, 10000))
    IN /\ l3Log[i].result # RateLimitExceeded
            => (l3Log[i].result = BurstActivity <=> n > rateLimits.burstThreshold)
       /\ n > rateLimits.burstThreshold
            => l3Log[i].result \in {BurstActivity, RateLimitExceeded}
       /\ l3Log[i].result.violationType = "BURST_ACTIVITY"
            => l3Log[i].result.severity = "HIGH"
C8_Witness ==
  /\ rateLimits.burstThreshold = 1
  /\ Len(l3Log) >= 3
  /\ l3Log[1].result.passed
  /\ l3Log[2].result = BurstActivity
  /\ l3Log[2].at - l3Log[1].at < 10000
  /\ l3Log[3].at - l3Log[1].at >= 10000
  /\ l3Log[3].result # BurstActivity

\* the requests that passed the per-minute check less than 60 000 ms before
\* the i-th reached L3, counting the i-th
MinutePassesWithin(i) ==
  {j \in ReachedWithin(i, 60000) : l3Log[j].minutePassed}

C10_ExcessBlocked ==
  \A i \in 1..Len(l3Log) : \A j \in i..Len(l3Log) :
    l3Log[j].at - l3Log[i].at < 10000 =>
      Cardinality({k \in i..j : l3Log[k].result \in {BurstActivity, RateLimitExceeded}})
        >= (j - i + 1) - rateLimits.burstThreshold
C10_Witness ==
  /\ rateLimits.burstThreshold = 1
  /\ l3Batch = 3
  /\ Len(l3Log) = 3
  /\ l3Log[3].at - l3Log[1].at < 10000
  /\ l3Log[3].at > l3Log[1].at
  /\ l3Log[1].result.passed
  /\ l3Log[2].result = BurstActivity
  /\ l3Log[3].result \in {BurstActivity, RateLimitExceeded}

(***************************************************************************)
(* Further claims about SecureTransport (Spec).                            *)
(***************************************************************************)
\* the outcome of a request (its error response handed to transport.send, or
\* its being forwarded) is produced by the step that ends its _handleMessage
HasOutcome(m) == handler[m] = "done"

\* C11: if request r1 arrived before request r2, r1's outcome happens before
\* r2's: no state has r2's outcome while r1 still waits for its own.
C11_OutcomesInArrivalOrder ==
  \A r1 \in Arrived, r2 \in Arrived :
    (/\ r1 < r2
     /\ _getMessageType(inbox[r1]) = "request"
     /\ _getMessageType(inbox[r2]) = "request"
     /\ HasOutcome(r2)) => HasOutcome(r1)

\* the validator was never invoked for message m, whose handling is over
NeverValidated(m) == handler[m] = "done" /\ verdict[m] = "none"
HasIdAndResult(message) == message.id # Undefined /\ message.result # Undefined

MaxShaped == 1
ShapedMessages ==
  [jsonrpc : {Undefined, "2.0"}, method : {Undefined, "tools/call"},
   params : {Undefined, "params"}, body : {Undefined, "body"},
   id : {Undefined, "1"}, result : {Undefined, "value"}]

ReceiveShaped(message) ==
  /\ Len(inbox) < MaxShaped
  /\ Receive(message)

NextShapes ==
  \/ \E message \in ShapedMessages : ReceiveShaped(message)
  \/ \E m \in 1..Len(inbox), o \in LayerOutcomes : RunLayer(m, o)
  \/ \E m \in 1..Len(inbox) : PipelineSuccess(m)
  \/ \E m \in 1..Len(inbox) : ValidatorThrows(m)
  \/ \E m \in 1..Len(inbox), sendThrows \in BOOLEAN : Decide(m, sendThrows)

SpecShapes == Init /\ [][NextShapes]_vars

\* C13: what the protocol receives for a forwarded message is the object
\* the transport delivered, field for field, whatever object normalization
\* presented to the pipeline.
C13_ForwardsOriginal ==
  /\ Len(delivered) = Len(forwarded)
  /\ \A k \in 1..Len(forwarded) : delivered[k] = inbox[forwarded[k]]
C13_Witness ==
  \E k \in 1..Len(forwarded) :
    /\ verdict[forwarded[k]] = "allowed"
    /\ _normalizeRequest(inbox[forwarded[k]]) # inbox[forwarded[k]]
    /\ delivered[k] = inbox[forwarded[k]]

(***************************************************************************)
(* SpecL4Policy: SemanticsValidationLayer.validate over every sideEffects  *)
(* value and policy, with the default quotas, and over params.name values  *)
(* of every kind.                                                          *)
(***************************************************************************)
\* number of pipeline.validate calls in one behaviour of SpecL4Policy
MaxPolicyCalls == 2
L4PolicyMessages ==
  L4Messages
  \cup [method : {"tools/call"}, name : {""} \cup NonStringNames,
        args : {"valid"}, bytes : {20}, uri : {"-"}]

InitL4Policy ==
  /\ enabled = [i \in Layers |-> TRUE]
  /\ TransportInit
  /\ ResInit
  /\ SessInit
  /\ ExtraInit
  /\ CacheInit
  /\ ClockInit
  /\ QuotaInit
  /\ L3Init
  /\ \E sideEffects \in {"none", "read", "write", "network"} :
        tool = [DefaultTool EXCEPT !.sideEffects = sideEffects]
  /\ policy \in [allowWrites : BOOLEAN, allowNetwork : BOOLEAN]
  /\ l4Pending = 0
  /\ l4Done = 0
  /\ l4Last = <<>>
  /\ toolWindow = NoWindow

L4PolicySubmit ==
  /\ l4Pending + l4Done < MaxPolicyCalls
  /\ L4Submit

NextL4Policy ==
  \/ L4PolicySubmit
  \/ \E msg \in L4PolicyMessages : L4Step(msg)
  \/ QuotaSweep
  \/ \E d \in L4TickSteps : Tick(d, MaxL4Ticks)

SpecL4Policy == InitL4Policy /\ [][NextL4Policy]_vars

ToolNotAllowed == FailureResult("HIGH", "TOOL_NOT_ALLOWED")
\* a tools/call message whose params.name is not a registered tool's name
Unregistered(msg) == msg.method = "tools/call" /\ msg.name # tool.name
IsStringName(name) == name \notin {Undefined} \cup NonStringNames

\* C14 (as stated): no tools/call whose params.name is not registered is
\* allowed by L4, and when the name is a string the rejection is
\* TOOL_NOT_ALLOWED at HIGH.
C14_UnregisteredStringNotAllowed ==
  l4Last # <<>> =>
    LET c == l4Last[1]
    IN Unregistered(c.msg) =>
         /\ ~c.result.passed
         /\ IsStringName(c.msg.name) => c.result = ToolNotAllowed

\* C14 (amended): no tools/call whose params.name is not registered is
\* allowed by L4; when the name is a non-empty string the rejection is
\* TOOL_NOT_ALLOWED at HIGH, and when it is missing, empty or not a string
\* it is MISSING_REQUIRED_PARAM at MEDIUM.
C14_UnregisteredNeverAllowed ==
  l4Last # <<>> =>
    LET c == l4Last[1]
    IN Unregistered(c.msg) =>
         /\ ~c.result.passed
         /\ NameGiven(c.msg.name) => c.result = ToolNotAllowed
         /\ ~NameGiven(c.msg.name)
              => c.result = FailureResult("MEDIUM", "MISSING_REQUIRED_PARAM")
C14_Witness ==
  /\ l4Done >= 2
  /\ l4Last # <<>>
  /\ l4Last[1].msg.name = "ghost"
  /\ l4Last[1].result = ToolNotAllowed
  /\ toolWindow.passes >= 1

SideEffectNotAllowed == FailureResult("HIGH", "SIDE_EFFECT_NOT_ALLOWED")
\* the policy flag a tool's sideEffects asks for is set
FlagSet ==
  \/ tool.sideEffects = "write" /\ policy.allowWrites
  \/ tool.sideEffects = "network" /\ policy.allowNetwork

\* C15 (as stated): a tools/call for a registered tool whose sideEffects is
\* write (network) passes L4 only if allowWrites (allowNetwork) is true and is
\* otherwise rejected with SIDE_EFFECT_NOT_ALLOWED at HIGH; a tool whose
\* sideEffects is read or none is never rejected on this ground.
C15_RejectedAsSideEffect ==
  l4Last # <<>> =>
    LET c == l4Last[1]
    IN ForTool(c.msg) =>
         /\ (tool.sideEffects \in {"write", "network"} /\ ~FlagSet)
              => c.result = SideEffectNotAllowed
         /\ tool.sideEffects \in {"read", "none"}
              => c.result # SideEffectNotAllowed

\* C15 (amended): such a call passes L4 only if the flag is true; without
\* the flag it is rejected, with SIDE_EFFECT_NOT_ALLOWED at HIGH when it got
\* past the contract and the quota checks and with their violation
\* otherwise; a tool whose sideEffects is read or none is never rejected on
\* this ground.
C15_SideEffectsNeedFlag ==
  l4Last # <<>> =>
    LET c == l4Last[1]
    IN ForTool(c.msg) =>
         /\ (tool.sideEffects \in {"write", "network"} /\ ~FlagSet)
              => /\ ~c.result.passed
                 /\ (ReachesToolQuota(c.msg) /\ c.result # QuotaExceeded)
                      => c.result = SideEffectNotAllowed
                 /\ ~ReachesToolQuota(c.msg)
                      => c.result.violationType \in
                           {"INVALID_TOOL_ARGUMENTS", "MISSING_REQUIRED_PARAM",
                            "ARGS_EGRESS_LIMIT"}
         /\ (tool.sideEffects \in {"read", "none"} \/ FlagSet)
              => c.result # SideEffectNotAllowed
C15_Witness ==
  /\ tool.sideEffects = "write"
  /\ ~policy.allowWrites
  /\ policy.allowNetwork
  /\ l4Last # <<>>
  /\ ReachesToolQuota(l4Last[1].msg)
  /\ l4Last[1].result = SideEffectNotAllowed

(***************************************************************************)
(* The resource policy of L4 for file paths (SpecResource).  A string is a *)
(* sequence of characters; the host is a POSIX one, where "/" is the only  *)
(* separator path.normalize and path.resolve know.  No string of the model *)
(* holds a ":", so every uri is of the scheme 'file' and toAbsolutePath     *)
(* takes its branch for plain paths.                                       *)
(***************************************************************************)
Backslash == "\\"
PathChars == {"/", ".", "a", Backslash, FullwidthDot}
MaxUriLen == 6
Uris == UNION {[1..n -> PathChars] : n \in 1..MaxUriLen}

\* String.prototype.split('/'), from position i on
RECURSIVE splitPath(_, _, _)
splitPath(s, i, segment) ==
  IF i > Len(s) THEN <<segment>>
  ELSE IF s[i] = "/" THEN <<segment>> \o splitPath(s, i + 1, <<>>)
  ELSE splitPath(s, i + 1, Append(segment, s[i]))

DotDot == <<".", ".">>
\* normalizeString of Node's path module: '.' and empty segments go, '..'
\* takes the segment before it away
RECURSIVE normalizeString(_, _, _)
normalizeString(segments, res, allowAboveRoot) ==
  IF segments = <<>> THEN res
  ELSE LET segment == Head(segments)
           rest == Tail(segments)
       IN IF segment = <<>> \/ segment = <<".">>
          THEN normalizeString(rest, res, allowAboveRoot)
          ELSE IF segment = DotDot
          THEN IF res # <<>> /\ res[Len(res)] # DotDot
               THEN normalizeString(rest, SubSeq(res, 1, Len(res) - 1),
                                    allowAboveRoot)
               ELSE IF allowAboveRoot
               THEN normalizeString(rest, Append(res, segment), allowAboveRoot)
               ELSE normalizeString(rest, res, allowAboveRoot)
          ELSE normalizeString(rest, Append(res, segment), allowAboveRoot)

\* Array.prototype.join('/')
RECURSIVE joinPath(_)
joinPath(segments) ==
  IF segments = <<>> THEN <<>>
  ELSE IF Len(segments) = 1 THEN segments[1]
  ELSE segments[1] \o <<"/">> \o joinPath(Tail(segments))

\* path.normalize: a trailing separator is kept
pathNormalize(p) ==
  IF p = <<>> THEN <<".">>
  ELSE LET isAbsolute == p[1] = "/"
           trailingSeparator == p[Len(p)] = "/"
           body == joinPath(normalizeString(splitPath(p, 1, <<>>), <<>>,
                                            ~isAbsolute))
       IN IF body = <<>>
          THEN IF isAbsolute THEN <<"/">>
               ELSE IF trailingSeparator THEN <<".", "/">> ELSE <<".">>
          ELSE (IF isAbsolute THEN <<"/">> ELSE <<>>) \o body
               \o (IF trailingSeparator THEN <<"/">> ELSE <<>>)

\* path.resolve(baseDirectory, p) for an absolute baseDirectory: trailing
\* separators are removed
pathResolve(baseDirectory, p) ==
  LET resolvedPath == IF p # <<>> /\ p[1] = "/" THEN p
                      ELSE baseDirectory \o <<"/">> \o p
  IN <<"/">> \o joinPath(normalizeString(splitPath(resolvedPath, 1, <<>>),
                                         <<>>, FALSE))

\* String.prototype.replace(/\\/g, '/')
replaceBackslashes(s) ==
  [i \in 1..Len(s) |-> IF s[i] = Backslash THEN "/" ELSE s[i]]

\* String.prototype.startsWith
startsWith(s, prefix) ==
  Len(prefix) <= Len(s) /\ SubSeq(s, 1, Len(prefix)) = prefix

toAbsolutePath(uriOrPath, baseDirectory) ==
  pathNormalize(pathResolve(baseDirectory, canonicalizeString(uriOrPath)))

isUnderAllowedRoots(absolutePath, roots) ==
  LET normalizedPath == replaceBackslashes(pathNormalize(absolutePath))
  IN \E root \in roots :
       LET normalizedRoot == replaceBackslashes(pathNormalize(root))
       IN \/ normalizedPath = normalizedRoot
          \/ startsWith(normalizedPath,
                        IF normalizedRoot[Len(normalizedRoot)] = "/"
                        THEN normalizedRoot
                        ELSE normalizedRoot \o <<"/">>)

ResourcePolicyViolation(severity) ==
  FailureResult(severity, "RESOURCE_POLICY_VIOLATION")

\* the policy has no denyGlobs
validateFileScheme(u, policy_, baseDirectory) ==
  LET absolutePath == toAbsolutePath(u, baseDirectory)
  IN IF policy_.maxPathLength # 0 /\ Len(absolutePath) > policy_.maxPathLength
     THEN ResourcePolicyViolation("MEDIUM")
     ELSE IF ~isUnderAllowedRoots(absolutePath, policy_.rootDirs)
     THEN ResourcePolicyViolation("HIGH")
     ELSE SuccessResult

\* Math.min(10_000_000, Math.max(0, String(uri).length * 1024))
estimateReadBytes(u) ==
  IF Len(u) * 1024 > 10000000 THEN 10000000 ELSE Len(u) * 1024

validateResourceAccess(u, policy_, baseDirectory) ==
  IF policy_.maxUriLength # 0 /\ Len(u) > policy_.maxUriLength
  THEN ResourcePolicyViolation("MEDIUM")
  ELSE IF "file" \notin policy_.allowedSchemes
  THEN ResourcePolicyViolation("HIGH")
  ELSE LET fileResult == validateFileScheme(u, policy_, baseDirectory)
       IN IF ~fileResult.passed THEN fileResult
          ELSE IF estimateReadBytes(u) > policy_.maxReadBytes
          THEN FailureResult("MEDIUM", "RESOURCE_EGRESS_LIMIT")
          ELSE SuccessResult

\* checkResourceRead up to its quota: the uri is canonicalized, then checked
ReadResource ==
  /\ accessResult = <<>>
  /\ accessResult' =
       <<validateResourceAccess(canonicalizeString(uri), resourcePolicy,
                                baseDir)>>
  /\ UNCHANGED <<resourcePolicy, baseDir, uri>>
  /\ UNCHANGED resFrame

\* the sets of rootDirs of the model: one root, one root written with a
\* trailing separator, a root and a directory beneath it
RootDirChoices ==
  {{<<"/", "a">>}, {<<"/", "a", "/">>}, {<<"/">>, <<"/", "a">>},
   {<<"/", "a", "/", "a">>}}

InitResource ==
  /\ enabled = [i \in Layers |-> TRUE]
  /\ TransportInit
  /\ CacheInit
  /\ ClockInit
  /\ QuotaInit
  /\ L4Init
  /\ L3Init
  /\ SessInit
  /\ ExtraInit
  /\ \E roots \in RootDirChoices :
       resourcePolicy = [allowedSchemes |-> {"file"}, rootDirs |-> roots,
                         maxPathLength |-> 4096, maxUriLength |-> 2048,
                         maxReadBytes |-> 2000000]
  /\ baseDir \in {<<"/">>, <<"/", "a">>}
  /\ uri \in Uris
  /\ accessResult = <<>>

NextResource == ReadResource

SpecResource == InitResource /\ [][NextResource]_vars

\* the segments of a path with '.' and '..' resolved
Resolved(p) == normalizeString(splitPath(p, 1, <<>>), <<>>, FALSE)
\* the path the uri names: relative ones start at baseDir
NamedPath ==
  LET canonical == canonicalizeString(uri)
  IN IF canonical[1] = "/" THEN canonical ELSE baseDir \o <<"/">> \o canonical
\* the named path equals the root or lies beneath it
Beneath(root) ==
  LET r == Resolved(root)
      q == Resolved(NamedPath)
  IN Len(r) <= Len(q) /\ SubSeq(q, 1, Len(r)) = r

\* C16 (as stated): a file resource read passes the resource policy only if
\* its path, with '.' and '..' resolved, equals a rootDir or lies beneath
\* one; a rootDir itself passes; a rootDir followed by "/.." is rejected
\* with RESOURCE_POLICY_VIOLATION.
C16_OnlyUnderRoots ==
  accessResult # <<>> =>
    /\ accessResult[1].passed => \E root \in resourcePolicy.rootDirs : Beneath(root)
    /\ uri \in resourcePolicy.rootDirs => accessResult[1].passed
    /\ (\E root \in resourcePolicy.rootDirs : uri = root \o <<"/", ".", ".">>)
         => accessResult[1] = ResourcePolicyViolation("HIGH")

(***************************************************************************)
(* Further claims about InMemoryQuotaProvider (SpecQuota).                 *)
(***************************************************************************)
\* the bucket exists and its count has reached the key's limit for it
AtLimit(k, b) ==
  /\ quotaLimits[k][b] # 0
  /\ counters[k][b].present
  /\ counters[k][b].count >= quotaLimits[k][b]
\* now - windowStart > windowMs + clockSkewMs
WindowOver(k, b) ==
  now - counters[k][b].windowStart > WindowMs(b) + clockSkewMs
\* the step is an incrementAndCheck call on key k
CallOn(k) ==
  /\ quotaCalls' = quotaCalls + 1
  /\ quotaLast'[1].key = k
\* the bucket of the key is new or restarted: one call, counted from now
StartedNow(k, b) ==
  counters'[k][b] = [present |-> TRUE, count |-> 1, windowStart |-> now]

OnlyKey(k) ==
  [k2 \in QuotaKeys |->
     IF k2 = k THEN counters[k] ELSE [b \in Buckets |-> NoBucket]]

\* C18: incrementAndCheck on key k changes the counters of no other key, and
\* the outcome of a call on a key does not depend on the calls made on other
\* keys: it is the outcome a provider that saw the calls on this key alone
\* gives, so a key with a per-minute limit alone passes exactly the first
\* limit calls of its own window however exhausted another key is.
C18_KeysIndependent ==
  [][\A k \in QuotaKeys :
       CallOn(k) =>
         /\ \A k2 \in QuotaKeys \ {k} : counters'[k2] = counters[k2]
         /\ quotaLast'[1].passed =
              incrementAndCheck(OnlyKey(k), k, quotaLimits[k], now).passed
         /\ counters'[k] =
              incrementAndCheck(OnlyKey(k), k, quotaLimits[k], now).counters[k]
         /\ quotaLimits[k].hour = 0 /\ quotaLimits[k].minute # 0 =>
              (quotaLast'[1].passed
                 <=> quotaLast'[1].ordinal["minute"] <= quotaLimits[k].minute)]_vars
\* a call on the second key passed while the first key's per-minute quota
\* was exhausted, and left the first key's counters alone
C18_Witness ==
  /\ quotaLast # <<>>
  /\ quotaLast[1].key = "method:resources/read"
  /\ quotaLast[1].passed
  /\ quotaLimits["tool:calc"].minute = 1
  /\ counters["tool:calc"]["minute"].present
  /\ counters["tool:calc"]["minute"].count = 3
  /\ now - counters["tool:calc"]["minute"].windowStart <= 61000

(***************************************************************************)
(* SessionMemory (SpecSessions): the Map is a sequence of entries in       *)
(* insertion order, so its first entry is the one map.keys().next() gives. *)
(* Every method is given Date.now() as its now.                            *)
(***************************************************************************)
\* constructor options: maxEntries (5000 in L4 unless configured) and ttlMs
maxEntries == 2
ttlMs == 1800000
SessionKeys == {"s1", "s2", "s3"}
SessionMethods == {"ping", "tools/list"}
\* number of SessionMemory calls and of clock advances in one behaviour
MaxSessionOps == 4
MaxSessionTicks == 3
\* the clock advances of SpecSessions: a moment, and the whole of ttlMs
SessionTickSteps == {1, 1800000}

\* Map.prototype.has, get and delete
mapHas(map, key) == \E i \in 1..Len(map) : map[i].key = key
mapGet(map, key) == map[CHOOSE i \in 1..Len(map) : map[i].key = key]
mapDelete(map, key) == SelectSeq(map, LAMBDA e : e.key # key)

getNoRefresh(map, key, t) ==
  IF ~mapHas(map, key) THEN [map |-> map, value |-> Undefined]
  ELSE LET entry == mapGet(map, key)
       IN IF t - entry.timestamp > ttlMs
          THEN [map |-> mapDelete(map, key), value |-> Undefined]
          ELSE [map |-> map, value |-> entry.method]
getStale(map, key, t) ==
  IF ~mapHas(map, key) THEN [map |-> map, value |-> Undefined]
  ELSE LET entry == mapGet(map, key)
       IN [map |-> Append(mapDelete(map, key), entry), value |-> entry.method]
\* a get whose hit also renews the entry's timestamp
getRenews(map, key, t) ==
  IF ~mapHas(map, key) THEN [map |-> map, value |-> Undefined]
  ELSE LET entry == mapGet(map, key)
       IN IF t - entry.timestamp > ttlMs
          THEN [map |-> mapDelete(map, key), value |-> Undefined]
          ELSE [map |-> Append(mapDelete(map, key),
                               [entry EXCEPT !.timestamp = t]),
                value |-> entry.method]
get(map, key, t) ==
  IF ~mapHas(map, key) THEN [map |-> map, value |-> Undefined]
  ELSE LET entry == mapGet(map, key)
       IN IF t - entry.timestamp > ttlMs
          THEN [map |-> mapDelete(map, key), value |-> Undefined]
          ELSE [map |-> Append(mapDelete(map, key), entry),
                value |-> entry.method]

setNoEviction(map, key, method, t) ==
  Append(mapDelete(map, key), [key |-> key, method |-> method, timestamp |-> t])
set(map, key, method, t) ==
  LET kept == IF mapHas(map, key) THEN mapDelete(map, key)
              ELSE IF Len(map) >= maxEntries /\ map # <<>>
              THEN mapDelete(map, map[1].key)
              ELSE map
  IN Append(kept, [key |-> key, method |-> method, timestamp |-> t])

has(map, key, t) ==
  IF ~mapHas(map, key) THEN [map |-> map, found |-> FALSE]
  ELSE IF t - mapGet(map, key).timestamp > ttlMs
  THEN [map |-> mapDelete(map, key), found |-> FALSE]
  ELSE [map |-> map, found |-> TRUE]

cleanup(map, t) == SelectSeq(map, LAMBDA e : ~(t - e.timestamp > ttlMs))

\* history of a call: whether the key was held before it and, from the
\* clock alone, whether its entry was older than ttlMs then
SessionCall(op, key, value, found) ==
  LET held == mapHas(sessionMap, key)
  IN <<[op |-> op, key |-> key, held |-> held,
        old |-> held /\ now - mapGet(sessionMap, key).timestamp > ttlMs,
        sizeBefore |-> Len(sessionMap), value |-> value, found |-> found]>>

SessionStep(map, op, key, value, found) ==
  /\ sessionOps < MaxSessionOps
  /\ sessionMap' = map
  /\ sessionOps' = sessionOps + 1
  /\ sessionLast' = SessionCall(op, key, value, found)
  /\ sessionUsed' = IF op = "set" \/ (op = "get" /\ value # Undefined)
                    THEN Append(SelectSeq(sessionUsed, LAMBDA k : k # key), key)
                    ELSE sessionUsed
  /\ UNCHANGED sessFrame

SessionGet(key) ==
  LET r == get(sessionMap, key, now)
  IN SessionStep(r.map, "get", key, r.value, r.value # Undefined)
SessionSet(key, method) ==
  SessionStep(set(sessionMap, key, method, now), "set", key, Undefined, FALSE)
SessionHas(key) ==
  LET r == has(sessionMap, key, now)
  IN SessionStep(r.map, "has", key, Undefined, r.found)
SessionDelete(key) ==
  SessionStep(mapDelete(sessionMap, key), "delete", key, Undefined,
              mapHas(sessionMap, key))
SessionCleanup ==
  SessionStep(cleanup(sessionMap, now), "cleanup", "s1", Undefined, FALSE)

InitSessions ==
  /\ enabled = [i \in Layers |-> TRUE]
  /\ TransportInit
  /\ ResInit
  /\ SessInit
  /\ ExtraInit
  /\ CacheInit
  /\ ClockInit
  /\ QuotaInit
  /\ L4Init
  /\ L3Init

NextSessions ==
  \/ \E key \in SessionKeys : SessionGet(key)
  \/ \E key \in SessionKeys, method \in SessionMethods : SessionSet(key, method)
  \/ \E key \in SessionKeys : SessionHas(key)
  \/ \E key \in SessionKeys : SessionDelete(key)
  \/ SessionCleanup
  \/ \E d \in SessionTickSteps : Tick(d, MaxSessionTicks)

SpecSessions == InitSessions /\ [][NextSessions]_vars

C20_OldEntriesInvisible ==
  sessionLast # <<>> =>
    LET c == sessionLast[1]
    IN (c.op \in {"get", "has"} /\ c.old) =>
         /\ c.value = Undefined
         /\ ~c.found
         /\ ~mapHas(sessionMap, c.key)
\* a get found an entry older than ttlMs, returned nothing and removed it
C20_Witness ==
  /\ sessionLast # <<>>
  /\ sessionLast[1].op = "get"
  /\ sessionLast[1].old
  /\ sessionLast[1].value = Undefined
  /\ Len(sessionMap) = sessionLast[1].sizeBefore - 1

\* the keys SessionMemory holds
HeldKeys(map) == {map[i].key : i \in 1..Len(map)}
\* the held key whose last get hit or set lies furthest back
LeastRecentlyUsed ==
  sessionUsed[CHOOSE i \in 1..Len(sessionUsed) :
                /\ mapHas(sessionMap, sessionUsed[i])
                /\ \A j \in 1..(i - 1) : ~mapHas(sessionMap, sessionUsed[j])]
\* the step is a set of a key that is not held, made at capacity
SetAtCapacity ==
  /\ sessionOps' = sessionOps + 1
  /\ sessionLast'[1].op = "set"
  /\ ~mapHas(sessionMap, sessionLast'[1].key)
  /\ Len(sessionMap) = maxEntries

\* C21: when set inserts a new key while SessionMemory is at capacity,
\* exactly one entry is evicted and it is the least recently used one, a get
\* hit and a set both making an entry the most recently used.
C21_EvictsLeastRecentlyUsed ==
  [][SetAtCapacity =>
       HeldKeys(sessionMap') =
         (HeldKeys(sessionMap) \ {LeastRecentlyUsed}) \cup {sessionLast'[1].key}]_vars
\* s1 and s2 were set, s1 was read, and the set of s3 evicted s2
C21_Witness ==
  /\ sessionOps = 4
  /\ sessionLast # <<>>
  /\ sessionLast[1].op = "set"
  /\ sessionLast[1].sizeBefore = maxEntries
  /\ sessionUsed = <<"s2", "s1", "s3">>
  /\ HeldKeys(sessionMap) = {"s1", "s3"}

(***************************************************************************)
(* Further claims about ValidationPipeline.validate.  SpecPipelineFair is  *)
(* SpecPipeline with every awaited layer.validate settling: the loop goes  *)
(* on as long as a layer is left, and returns when none is.                *)
(***************************************************************************)
SpecPipelineFair ==
  /\ SpecPipeline
  /\ WF_vars(\E m \in 1..MaxCalls, o \in LayerOutcomes :
               m <= Len(inbox) /\ RunLayerH(m, o))
  /\ WF_vars(\E m \in 1..MaxCalls : m <= Len(inbox) /\ PipelineSuccessH(m))

\* the result is one of the three kinds validate returns
OneOfThreeResults(m) ==
  LET r == validationResult[m]
  IN \/ r = successResult /\ thrownAt[m] = 0
     \/ /\ thrownAt[m] # 0
        /\ r = errorResult(thrownAt[m])
     \/ /\ thrownAt[m] = 0
        /\ invoked[m] # <<>>
        /\ ~r.passed /\ ~r.allowed
        /\ r.layerName = getName(Last(invoked[m]))
\* each layer that ran is enabled and ran once, in list order
EachLayerAtMostOnce(m) ==
  \A k \in 1..Len(invoked[m]) :
    /\ enabled[invoked[m][k]]
    /\ \A j \in 1..Len(invoked[m]) : j < k => invoked[m][j] < invoked[m][k]

C23_MissingFieldsDefaulted ==
  [][\A m \in Arrived, raw \in RawResults :
       RunLayerH(m, [kind |-> "result", raw |-> raw]) =>
         /\ (raw.passed = Undefined /\ raw.allowed = Undefined) =>
               /\ handler'[m] = "validating"
               /\ layerPos'[m] = NextEnabled(layerPos[m]) + 1
               /\ falseAt'[m] = falseAt[m]
         /\ handler'[m] = "validated" =>
               LET r == validationResult'[m]
               IN /\ r.severity = IF raw.severity = Undefined THEN "LOW"
                                  ELSE raw.severity
                  /\ r.reason = IF raw.reason = Undefined
                                THEN "No reason provided" ELSE raw.reason
                  /\ r.violationType = IF raw.violationType = Undefined
                                       THEN "UNKNOWN" ELSE raw.violationType]_vars
\* layers 1 and 2 passed and layer 3 blocked with an object that has neither
\* severity, reason nor violationType
C23_Witness ==
  \E m \in Arrived :
    /\ invoked[m] = <<1, 2, 3>>
    /\ falseAt[m] = 3
    /\ thrownAt[m] = 0
    /\ handler[m] = "validated"
    /\ validationResult[m].severity = "LOW"
    /\ validationResult[m].reason = "No reason provided"
    /\ validationResult[m].violationType = "UNKNOWN"
    /\ validationResult[m].layerName = getName(3)

\* C24 as stated: every validation result with passed = true, whether
\* produced by a layer or by the pipeline, has severity NONE.
C24_PassedHasSeverityNone ==
  /\ successResult.passed => successResult.severity = "NONE"
  /\ l4Last # <<>> =>
       (l4Last[1].result.passed => l4Last[1].result.severity = "NONE")
\* C24 amended: the successResult of the pipeline has severity NONE; the
\* success result of a layer, built by createSuccessResult, has the default
\* severity of ValidationResult, LOW.
C24_LayerSuccessIsLow ==
  /\ successResult.passed /\ successResult.severity = "NONE"
  /\ l4Last # <<>> =>
       (l4Last[1].result.passed => l4Last[1].result.severity = "LOW")
\* the semantics layer passed a tools/call of the registered tool
C24_Witness ==
  /\ l4Last # <<>>
  /\ ForTool(l4Last[1].msg)
  /\ l4Last[1].result.passed
  /\ l4Last[1].result.severity = "LOW"

(***************************************************************************)
(* SpecL1: StructureValidationLayer.validate called with messages of every *)
(* outcome of its four checks.  What a check reads of the message is kept  *)
(* as one field each: the serialized text (encoding), its length (size),   *)
(* and params.                                                             *)
(***************************************************************************)
MaxL1Calls == 2

L1Objects ==
  [kind : {"object"},
   jsonrpc : {"2.0", "1.0"},
   method : {"tools/call", "ping", "no method!", Undefined},
   id : {"number", "boolean"},
   text : {"clean", "null byte", "zero width space"},
   size : {"small", "fits", "large"},
   params : {Undefined, "string", "no name", "named", "many"}]
L1Messages == L1Objects \cup {[kind |-> "null"], [kind |-> "string"]}

validateJsonRpcStructure(message) ==
  IF message.jsonrpc # "2.0" THEN FailureResult("HIGH", "INVALID_PROTOCOL")
  ELSE IF message.method = Undefined
    THEN FailureResult("HIGH", "INVALID_PROTOCOL")
  ELSE IF message.method = "no method!"
    THEN FailureResult("MEDIUM", "INVALID_METHOD")
  ELSE IF message.id = "boolean" THEN FailureResult("MEDIUM", "INVALID_PROTOCOL")
  ELSE SuccessResult

validateEncoding(message) ==
  IF message.text = "null byte" THEN FailureResult("HIGH", "DANGEROUS_ENCODING")
  ELSE IF message.text = "zero width space"
    THEN FailureResult("MEDIUM", "SUSPICIOUS_ENCODING")
  ELSE SuccessResult

validateMessageSize(message) ==
  IF message.size = "large" THEN FailureResult("HIGH", "SIZE_LIMIT_EXCEEDED")
  ELSE IF message.size = "small" THEN FailureResult("LOW", "MALFORMED_MESSAGE")
  ELSE SuccessResult

isMcpMethod(method) == method \in {"tools/call", "tools/list", "resources/read",
                                   "resources/list", "prompts/get", "prompts/list"}

validateMcpMethodSchema(message) ==
  IF message.method = "tools/call" /\ message.params # "named"
  THEN FailureResult("MEDIUM", "MISSING_REQUIRED_PARAM")
  ELSE SuccessResult

validateSchema(message) ==
  IF message.params = "string" THEN FailureResult("MEDIUM", "INVALID_SCHEMA")
  ELSE IF message.params = "many"
    THEN FailureResult("MEDIUM", "PARAM_LIMIT_EXCEEDED")
  ELSE IF message.method # Undefined /\ isMcpMethod(message.method)
    THEN validateMcpMethodSchema(message)
  ELSE SuccessResult

L1Checks == <<"structure", "encoding", "size", "schema">>
L1Check(name, message) ==
  CASE name = "structure" -> validateJsonRpcStructure(message)
    [] name = "encoding" -> validateEncoding(message)
    [] name = "size" -> validateMessageSize(message)
    [] name = "schema" -> validateSchema(message)

\* the first failure of a list of results, or the success result
RECURSIVE FirstFailure(_)
FirstFailure(results) ==
  IF results = <<>> THEN SuccessResult
  ELSE IF ~Head(results).passed THEN Head(results)
  ELSE FirstFailure(Tail(results))

\* validate: the four checks are called while the array validations is
\* built, each running to its end; the loop then takes their results in order
L1validate(message) ==
  IF message.kind # "object"
  THEN [applied |-> <<>>, result |-> FailureResult("CRITICAL", "INVALID_MESSAGE")]
  ELSE LET validations == [k \in 1..Len(L1Checks) |-> L1Check(L1Checks[k], message)]
       IN [applied |-> L1Checks, result |-> FirstFailure(validations)]

L1Step(message) ==
  /\ l1Calls < MaxL1Calls
  /\ l1Calls' = l1Calls + 1
  /\ LET res == L1validate(message)
     IN l1Last' = <<[message |-> message, applied |-> res.applied,
                     result |-> res.result]>>
  /\ UNCHANGED l1Frame

InitL1 ==
  /\ enabled = [i \in Layers |-> TRUE]
  /\ TransportInit
  /\ ResInit
  /\ SessInit
  /\ ExtraInit
  /\ CacheInit
  /\ ClockInit
  /\ QuotaInit
  /\ L4Init
  /\ L3Init

NextL1 == \E message \in L1Messages : L1Step(message)

SpecL1 == InitL1 /\ [][NextL1]_vars

\* the checks of L1Checks that come after the first one that fails for message
AfterFirstFailure(message) ==
  {k \in 1..Len(L1Checks) :
     \E j \in 1..(k - 1) : ~L1Check(L1Checks[j], message).passed}

\* C25: each layer evaluates its checks in its documented order and returns
\* the first failure without applying any later check; for L1 the order is
\* structure, encoding, size, schema.
C25_FirstFailureEndsTheLayer ==
  l1Last # <<>> =>
    LET c == l1Last[1]
    IN c.message.kind = "object" =>
         /\ c.result = FirstFailure([k \in 1..Len(L1Checks) |->
                                       L1Check(L1Checks[k], c.message)])
         /\ \A k \in AfterFirstFailure(c.message) :
              \A j \in 1..Len(c.applied) : c.applied[j] # L1Checks[k]

(***************************************************************************)
(* SpecShutdown: a server that takes requests (their L3 and quota steps),  *)
(* whose two interval timers fire, and that is shut down.                  *)
(***************************************************************************)
MaxShutdownCalls == 2
MaxShutdownTicks == 2
ShutdownTickSteps == {1, 61000}

\* BehaviorValidationLayer.cleanup
L3cleanup ==
  /\ cleanupTimer' = FALSE
  /\ recentRequests' = <<>>
  /\ requestCounters' = [k \in RateKeys |-> NoBucket]

\* InMemoryQuotaProvider.destroy
destroy ==
  /\ timer' = FALSE
  /\ counters' = [k \in QuotaKeys |-> [b \in Buckets |-> NoBucket]]

\* shutdown() as it would be with destroy() called on the quota provider
shutdownWithDestroy ==
  /\ ~serverClosed
  /\ L3cleanup
  /\ destroy
  /\ serverClosed' = TRUE
  /\ UNCHANGED <<sweptAfter, rateLimits, l3Pending, l3Log, l3Batch, minuteWindow,
                 quotaLimits, quotaCalls, quotaWindows, quotaLast>>
  /\ UNCHANGED <<transportVars, pipelineHistory, cacheVars, clockVars,
                 l4Vars, resVars, sessVars, l1Vars, trackVars,
                 blockVars, l5Vars, moreVars>>
\* shutdown(), without a logger: cleanup() of the behavior layer, then close()
shutdown ==
  /\ ~serverClosed
  /\ L3cleanup
  /\ serverClosed' = TRUE
  /\ UNCHANGED <<timer, sweptAfter, rateLimits, l3Pending, l3Log, l3Batch,
                 minuteWindow>>
  /\ UNCHANGED <<transportVars, pipelineHistory, cacheVars, clockVars, quotaVars,
                 l4Vars, resVars, sessVars, l1Vars, trackVars,
                 blockVars, l5Vars, moreVars>>

\* a request arrives and its L3 and quota steps run, while the server is open
ShutdownL3Submit ==
  /\ ~serverClosed
  /\ l3Pending + Len(l3Log) < MaxShutdownCalls
  /\ L3Submit
ShutdownL3Step(message) == ~serverClosed /\ L3Step(message)
ShutdownQuotaCall(key) ==
  /\ ~serverClosed
  /\ quotaCalls < MaxShutdownCalls
  /\ QuotaCall(key)

\* the interval timers fire for as long as they are set
CleanupTimerFires == cleanupTimer /\ L3Sweep
QuotaTimerFires ==
  /\ timer
  /\ counters' = sweep(counters, now)
  /\ sweptAfter' = (sweptAfter \/ serverClosed)
  /\ UNCHANGED <<cleanupTimer, timer, serverClosed, quotaLimits, quotaCalls,
                 quotaWindows, quotaLast>>
  /\ UNCHANGED <<transportVars, pipelineHistory, cacheVars, clockVars, l4Vars,
                 l3Vars, resVars, sessVars, l1Vars, trackVars,
                 blockVars, l5Vars, moreVars>>

InitShutdown ==
  /\ enabled = [i \in Layers |-> TRUE]
  /\ TransportInit
  /\ ResInit
  /\ SessInit
  /\ ExtraInit
  /\ CacheInit
  /\ ClockInit
  /\ counters = [k \in QuotaKeys |-> [b \in Buckets |-> NoBucket]]
  /\ quotaLimits = [k \in QuotaKeys |-> [minute |-> 1, hour |-> 0]]
  /\ quotaCalls = 0
  /\ quotaWindows = [k \in QuotaKeys |-> [b \in Buckets |-> NoWindow]]
  /\ quotaLast = <<>>
  /\ L4Init
  /\ L3Init

NextShutdown ==
  \/ ShutdownL3Submit
  \/ \E message \in L3Messages : ShutdownL3Step(message)
  \/ \E key \in QuotaKeys : ShutdownQuotaCall(key)
  \/ CleanupTimerFires
  \/ QuotaTimerFires
  \/ shutdown
  \/ \E d \in ShutdownTickSteps : Tick(d, MaxShutdownTicks)

SpecShutdown == InitShutdown /\ [][NextShutdown]_vars

\* C26: after shutdown() completes, the behavior layer's cleanup timer and
\* the quota provider's sweep timer are both stopped and their state is
\* cleared, so no sweep runs afterwards.
C26_TimersStoppedAfterShutdown ==
  serverClosed =>
    /\ ~cleanupTimer
    /\ recentRequests = <<>>
    /\ \A k \in RateKeys : ~requestCounters[k].present
    /\ ~timer
    /\ \A k \in QuotaKeys, b \in Buckets : ~counters[k][b].present
    /\ ~sweptAfter

\* the entry getSecureProcessedContent stores for a message on a miss
CacheEntryOf(message) ==
  [key |-> getMessageCacheKey(message), value |-> canonicalizeFromMessage(message)]
\* a step that is a call for a message whose key the cache does not hold,
\* made when the cache holds cacheMaxSize entries
InsertionAtCap ==
  /\ l2Message' # <<>>
  /\ Cardinality(processedContentCache) >= cacheMaxSize
  /\ ~\E e \in processedContentCache : e.key = getMessageCacheKey(l2Message'[1])
  /\ processedContentCache' # processedContentCache

\* C27: after any sequence of validations the L2 canonicalization cache
\* holds at most cacheMaxSize entries; when an insertion would exceed the
\* cap, the whole cache is cleared before the new entry is stored.
C27_CacheBounded ==
  /\ [](Cardinality(processedContentCache) <= cacheMaxSize)
  /\ [][InsertionAtCap =>
          processedContentCache' = {CacheEntryOf(l2Message'[1])}]_vars
\* the last validation found the cache full, cleared it and stored its entry
C27_Witness ==
  /\ l2Cleared
  /\ l2Message # <<>>
  /\ processedContentCache = {CacheEntryOf(l2Message[1])}

(***************************************************************************)
(* SpecTrack: the bookkeeping of the validator that _wrapTransport builds, *)
(* for a stream of requests.  The lengths 1000 and 500 of _trackRequest    *)
(* are scaled to RequestHistoryMax and RequestHistoryKeep.                 *)
(***************************************************************************)
MaxTracked == 6
TrackedIds == 1..5
RequestHistoryMax == 4
RequestHistoryKeep == 2

\* Array.prototype.slice(-n)
SliceLast(seq, n) ==
  IF Len(seq) <= n THEN seq ELSE SubSeq(seq, Len(seq) - n + 1, Len(seq))

\* _trackRequest
_trackRequest(history, id) ==
  LET pushed == Append(history, id)
  IN IF Len(pushed) > RequestHistoryMax THEN SliceLast(pushed, RequestHistoryKeep)
     ELSE pushed

\* the validator called for a request with the given id: the request-id
\* lookup when there is a logger, the pipeline's validation, _trackRequest
validator(id) ==
  /\ trackCalls < MaxTracked
  /\ trackCalls' = trackCalls + 1
  /\ IF enableLogging /\ ~\E e \in _requestIdByJsonrpcId : e.key = id
     THEN /\ requestCount' = requestCount + 1
          /\ _requestIdByJsonrpcId' =
               _requestIdByJsonrpcId \cup {[key |-> id, value |-> requestCount + 1]}
     ELSE UNCHANGED <<requestCount, _requestIdByJsonrpcId>>
  /\ _requestHistory' = _trackRequest(_requestHistory, id)
  /\ UNCHANGED enableLogging
  /\ UNCHANGED trackFrame

InitTrack ==
  /\ enabled = [i \in Layers |-> TRUE]
  /\ TransportInit
  /\ ResInit
  /\ SessInit
  /\ L1Init
  /\ ShutdownInit
  /\ BlockInit
  /\ L5Init
  /\ MoreInit
  /\ enableLogging \in BOOLEAN
  /\ _requestIdByJsonrpcId = {}
  /\ _requestHistory = <<>>
  /\ requestCount = 0
  /\ trackCalls = 0
  /\ CacheInit
  /\ ClockInit
  /\ QuotaInit
  /\ L4Init
  /\ L3Init

NextTrack == \E id \in TrackedIds : validator(id)

SpecTrack == InitTrack /\ [][NextTrack]_vars

\* C28: under an unbounded stream of messages, including requests with
\* pairwise distinct ids while logging is enabled, every in-memory collection
\* stays bounded: the request history by its cap, and the request-id map,
\* for which no cap is given, by the largest cap of the server's own
\* collections.
C28_CollectionsBounded ==
  /\ Len(_requestHistory) <= RequestHistoryMax
  /\ Cardinality(_requestIdByJsonrpcId) <= RequestHistoryMax

(***************************************************************************)
(* SpecBlocked: SecureTransport._sendBlockedResponse for blocked requests  *)
(* of every reason, severity and violation type, on a transport built      *)
(* without an error sanitizer, with the production one or with one that    *)
(* has enableDetailedErrors.  The random token and the random choice of    *)
(* the message are choices of the action; timestamps are left out.         *)
(***************************************************************************)
MaxBlocked == 2

\* what generatePublicToken may return
Tokens == {"a1b2c3", "d4e5f6"}
\* the reason, severity and violationType of a blocking validation result
Reasons == {Undefined, "tool calc not allowed for alice", "path /etc/passwd outside root"}
BlockedResults ==
  [reason : Reasons,
   severity : {Undefined, "MEDIUM", "CRITICAL"},
   violationType : {Undefined, "RATE_LIMIT_EXCEEDED", "INTERNAL_ERROR",
                    "POLICY_VIOLATION", "PATH_TRAVERSAL"}]

\* the messages getSanitizedMessage may return
getSanitizedMessage(detailed, type, severity) ==
  IF ~detailed
  THEN {"Request validation failed", "Invalid request format",
        "Request could not be processed"}
  ELSE CASE type = "VALIDATION_ERROR" -> {"Request validation failed"}
         [] type = "POLICY_VIOLATION" -> {"Request violates policy"}
         [] type = "CONTEXT_VIOLATION" -> {"Request not permitted in context"}
         [] type = "RATE_LIMIT_EXCEEDED" -> {"Too many requests"}
         [] type = "INTERNAL_ERROR" -> {"Internal validation error"}
         [] OTHER -> {"Request could not be processed"}

mapSeverityToErrorCode(severity, violationType) ==
  IF violationType = "RATE_LIMIT_EXCEEDED" THEN -32000
  ELSE IF violationType = "INTERNAL_ERROR" THEN -32603
  ELSE -32602

\* a response whose message is the internal reason
createSanitizedErrorResponseMut(detailed, messageId, internalReason, severity, violationType) ==
  {[id |-> ErrorResponseId(messageId),
    code |-> mapSeverityToErrorCode(severity, violationType),
    message |-> internalReason,
    data |-> [present |-> TRUE, token |-> token,
              retryAfterMs |-> IF violationType = "RATE_LIMIT_EXCEEDED"
                               THEN 60000 ELSE 0]] : token \in Tokens}
\* the responses createSanitizedErrorResponse may return
createSanitizedErrorResponse(detailed, messageId, internalReason, severity, violationType) ==
  {[id |-> ErrorResponseId(messageId),
    code |-> mapSeverityToErrorCode(severity, violationType),
    message |-> message,
    data |-> [present |-> TRUE, token |-> token,
              retryAfterMs |-> IF violationType = "RATE_LIMIT_EXCEEDED"
                               THEN 60000 ELSE 0]] :
     message \in getSanitizedMessage(detailed, violationType, severity),
     token \in Tokens}

\* x || y for a string x that is undefined or not
OrElse(x, y) == IF x = Undefined THEN y ELSE x

\* the error responses _sendBlockedResponse may hand to transport.send
BlockedResponses(sanitizer, requestId, result) ==
  IF sanitizer # "none"
  THEN createSanitizedErrorResponse(sanitizer = "development", requestId,
         OrElse(result.reason, "Request blocked by security policy"),
         OrElse(result.severity, "HIGH"),
         OrElse(result.violationType, "POLICY_VIOLATION"))
  ELSE {[id |-> requestId, code |-> -32602,
         message |-> OrElse(result.reason, "Request blocked by security policy"),
         data |-> [present |-> FALSE, token |-> "", retryAfterMs |-> 0]]}

_sendBlockedResponse(requestId, result) ==
  /\ blockedCalls < MaxBlocked
  /\ blockedCalls' = blockedCalls + 1
  /\ \E errorResponse \in BlockedResponses(_errorSanitizer, requestId, result) :
       blockedLast' = <<[requestId |-> requestId, result |-> result,
                         errorResponse |-> errorResponse]>>
  /\ UNCHANGED _errorSanitizer
  /\ UNCHANGED blockFrame

InitBlocked ==
  /\ enabled = [i \in Layers |-> TRUE]
  /\ TransportInit
  /\ ResInit
  /\ SessInit
  /\ L1Init
  /\ ShutdownInit
  /\ TrackInit
  /\ L5Init
  /\ MoreInit
  /\ _errorSanitizer \in {"none", "production", "development"}
  /\ blockedCalls = 0
  /\ blockedLast = <<>>
  /\ CacheInit
  /\ ClockInit
  /\ QuotaInit
  /\ L4Init
  /\ L3Init

NextBlocked ==
  \E requestId \in MessageIds \ {Undefined}, result \in BlockedResults :
    _sendBlockedResponse(requestId, result)

SpecBlocked == InitBlocked /\ [][NextBlocked]_vars

\* every string a sanitizer may put into the message of an error response
SanitizerMessages ==
  UNION {getSanitizedMessage(detailed, type, "HIGH") :
           detailed \in BOOLEAN,
           type \in {"VALIDATION_ERROR", "POLICY_VIOLATION", "CONTEXT_VIOLATION",
                     "RATE_LIMIT_EXCEEDED", "INTERNAL_ERROR", "UNKNOWN"}}

\* the last response carries no internal reason, and a block that differs
\* from the last one in its reason only may get exactly the same responses
NoReasonInResponse(c) ==
  /\ c.errorResponse.message \in SanitizerMessages
  /\ c.errorResponse.message \notin Reasons
  /\ \A other \in Reasons :
       BlockedResponses(_errorSanitizer, c.requestId,
                        [c.result EXCEPT !.reason = other])
         = BlockedResponses(_errorSanitizer, c.requestId, c.result)

MaxL5Calls == 1
MaxValidators == 2
MaxGlobalRules == 1
ValidatorNames == {"a", "b"}
\* the global rules have no name: the model calls them by their position
RuleNames == <<"rule 1", "rule 2">>
RuleOptions == [enabled : BOOLEAN, failOnError : BOOLEAN]
ValidatorOptions == [enabled : BOOLEAN, priority : {0, 50, 100},
                     skipOnSuccess : BOOLEAN, failOnError : BOOLEAN]
ValidatorOutcomes == {"pass", "fail", "throw"}

\* Map.prototype.set on the Map kept as a sequence of entries
validatorsSet(map, name, options) ==
  IF \E k \in 1..Len(map) : map[k].name = name
  THEN [k \in 1..Len(map) |->
          IF map[k].name = name THEN [name |-> name, options |-> options]
          ELSE map[k]]
  ELSE Append(map, [name |-> name, options |-> options])

\* the host registers its validators before the layer gets its first message
addValidator(name, options) ==
  /\ l5Calls = 0
  /\ Len(validatorsSet(validators, name, options)) <= MaxValidators
  /\ validators' = validatorsSet(validators, name, options)
  /\ UNCHANGED <<globalRules, l5Calls, l5Last>>
  /\ UNCHANGED l5Frame

addGlobalRule(options) ==
  /\ l5Calls = 0
  /\ Len(globalRules) < MaxGlobalRules
  /\ globalRules' = Append(globalRules, [name |-> RuleNames[Len(globalRules) + 1],
                                          options |-> options])
  /\ UNCHANGED <<validators, l5Calls, l5Last>>
  /\ UNCHANGED l5Frame

\* the priority value itself as the key
SortKeyByValue(entry) == entry.options.priority
\* the key of the comparator: options.priority || 100
SortKey(entry) == IF entry.options.priority = 0 THEN 100 ELSE entry.options.priority

\* Array.prototype.sort with the comparator of validate: stable
RECURSIVE InsertSorted(_, _)
InsertSorted(entry, sorted) ==
  IF sorted = <<>> THEN <<entry>>
  ELSE IF SortKey(Head(sorted)) <= SortKey(entry)
    THEN <<Head(sorted)>> \o InsertSorted(entry, Tail(sorted))
  ELSE <<entry>> \o sorted
RECURSIVE SortEntries(_)
SortEntries(entries) ==
  IF entries = <<>> THEN <<>>
  ELSE InsertSorted(entries[Len(entries)],
                    SortEntries(SubSeq(entries, 1, Len(entries) - 1)))
sortedValidators(map) ==
  SortEntries(SelectSeq(map, LAMBDA entry : entry.options.enabled))

\* what a failing validator or rule returned, as enhanceResult passes it on
HostFailure(source) ==
  [passed |-> FALSE, source |-> source, severity |-> "HIGH",
   violationType |-> "HOST_POLICY"]
L5Success ==
  [passed |-> TRUE, source |-> "none", severity |-> "LOW", violationType |-> "null"]
\* createFailureResult(..., 'MEDIUM', 'VALIDATOR_ERROR')
ValidatorError ==
  [passed |-> FALSE, source |-> "none", severity |-> "MEDIUM",
   violationType |-> "VALIDATOR_ERROR"]

\* a validator that throws with failOnError passes like any other
RunValidatorsMut(sorted, k, outcome, invokedSoFar) ==
  [invoked |-> invokedSoFar \o [i \in 1..(Len(sorted) - k + 1) |-> sorted[k + i - 1].name],
   result |-> L5Success]
\* the loop of validate over sortedValidators from position k on, given what
\* each validator does for the message
RECURSIVE RunValidators(_, _, _, _)
RunValidators(sorted, k, outcome, invokedSoFar) ==
  IF k > Len(sorted)
  THEN [invoked |-> invokedSoFar, result |-> L5Success]
  ELSE LET entry == sorted[k]
           ran == Append(invokedSoFar, entry.name)
       IN CASE outcome[entry.name] = "fail" ->
                 [invoked |-> ran, result |-> HostFailure(entry.name)]
            [] outcome[entry.name] = "pass" ->
                 IF entry.options.skipOnSuccess
                 THEN [invoked |-> ran, result |-> L5Success]
                 ELSE RunValidators(sorted, k + 1, outcome, ran)
            [] outcome[entry.name] = "throw" ->
                 IF entry.options.failOnError
                 THEN [invoked |-> ran, result |-> ValidatorError]
                 ELSE RunValidators(sorted, k + 1, outcome, ran)

\* the loop of validate over globalRules from position k on, then the
\* validators: a rule that throws is logged and the loop goes on
RECURSIVE RunGlobalRules(_, _, _, _)
RunGlobalRules(rules, k, outcome, invokedSoFar) ==
  IF k > Len(rules)
  THEN RunValidators(sortedValidators(validators), 1, outcome, invokedSoFar)
  ELSE LET rule == rules[k]
       IN IF ~rule.options.enabled
          THEN RunGlobalRules(rules, k + 1, outcome, invokedSoFar)
          ELSE IF outcome[rule.name] = "fail"
            THEN [invoked |-> Append(invokedSoFar, rule.name),
                  result |-> HostFailure(rule.name)]
          ELSE RunGlobalRules(rules, k + 1, outcome, Append(invokedSoFar, rule.name))

L5validate(outcome) ==
  /\ l5Calls < MaxL5Calls
  /\ l5Calls' = l5Calls + 1
  /\ LET res == RunGlobalRules(globalRules, 1, outcome, <<>>)
     IN l5Last' = <<[outcome |-> outcome, invoked |-> res.invoked,
                     result |-> res.result]>>
  /\ UNCHANGED <<validators, globalRules>>
  /\ UNCHANGED l5Frame

InitL5 ==
  /\ enabled = [i \in Layers |-> TRUE]
  /\ TransportInit
  /\ ResInit
  /\ SessInit
  /\ ExtraInit
  /\ CacheInit
  /\ ClockInit
  /\ QuotaInit
  /\ L4Init
  /\ L3Init

NextL5 ==
  \/ \E name \in ValidatorNames, options \in ValidatorOptions :
       addValidator(name, options)
  \/ \E options \in RuleOptions : addGlobalRule(options)
  \/ \E outcome \in [ValidatorNames \cup {RuleNames[k] : k \in 1..MaxGlobalRules}
                        -> ValidatorOutcomes] : L5validate(outcome)

SpecL5 == InitL5 /\ [][NextL5]_vars

\* where a name stands in a sequence of names, 0 when it does not
PositionIn(names, name) ==
  IF \E k \in 1..Len(names) : names[k] = name
  THEN CHOOSE k \in 1..Len(names) : names[k] = name ELSE 0

\* C30: validate invokes the enabled request validators in ascending order
\* of their priority value and returns the first failing result; no
\* validator ordered after the failing one is invoked.
C30_AscendingPriorityOrder ==
  l5Last # <<>> =>
    LET c == l5Last[1]
        on == SelectSeq(validators, LAMBDA entry : entry.options.enabled)
    IN /\ \A i, j \in 1..Len(on) :
            (/\ on[i].options.priority < on[j].options.priority
             /\ PositionIn(c.invoked, on[j].name) # 0
             /\ PositionIn(c.invoked, on[i].name) # 0)
              => PositionIn(c.invoked, on[i].name) < PositionIn(c.invoked, on[j].name)
       /\ \A i, j \in 1..Len(on) :
            (/\ on[i].options.priority < on[j].options.priority
             /\ c.outcome[on[i].name] = "fail")
              => PositionIn(c.invoked, on[j].name) = 0
       /\ \A k \in 1..Len(c.invoked) :
            c.outcome[c.invoked[k]] = "fail" =>
              /\ k = Len(c.invoked)
              /\ c.result = HostFailure(c.invoked[k])

\* the names of the enabled rules and validators in the order of validate
L5Order ==
  LET rules == SelectSeq(globalRules, LAMBDA rule : rule.options.enabled)
      sorted == sortedValidators(validators)
  IN [k \in 1..Len(rules) |-> rules[k].name] \o [k \in 1..Len(sorted) |-> sorted[k].name]
\* whether the validator or rule of that name was registered with failOnError
IsRule(name) == \E k \in 1..Len(globalRules) : globalRules[k].name = name
RegisteredFailOnError(name) ==
  \/ \E k \in 1..Len(globalRules) :
       globalRules[k].name = name /\ globalRules[k].options.failOnError
  \/ \E k \in 1..Len(validators) :
       validators[k].name = name /\ validators[k].options.failOnError
\* the k-th invocation of the last call threw and validate went on
TreatedAsPass(c, k) ==
  /\ k < Len(L5Order) => Len(c.invoked) > k
  /\ k = Len(c.invoked) => c.result = L5Success
\* the k-th invocation of the last call threw and validate returned the error
ReturnedValidatorError(c, k) ==
  /\ k = Len(c.invoked)
  /\ c.result = ValidatorError
  /\ c.result.severity = "MEDIUM"

MaxPieces == 3
MaxNesting == 32

CanonPieces == {<<"%">>, <<"2", "5">>, <<"5", "5">>, <<"z">>}

RECURSIVE Concat(_)
Concat(pieces) ==
  IF pieces = <<>> THEN <<>> ELSE Head(pieces) \o Concat(Tail(pieces))

\* "U" percent-encoded n + 1 times: "%", n times "25", then "55"
NestedEncoding(n) == <<"%">> \o Concat([i \in 1..n |-> <<"2", "5">>]) \o <<"5", "5">>

CanonInputs ==
  {Concat(ps) : ps \in UNION {[1..n -> CanonPieces] : n \in 1..MaxPieces}}
    \cup {NestedEncoding(n) : n \in 0..MaxNesting}

Canonicalize(input) ==
  /\ canonInput' = input
  /\ canonOnce' = canonicalizeString(input)
  /\ canonTwice' = canonicalizeString(canonicalizeString(input))
  /\ UNCHANGED canonFrame

InitCanon == InitL5

NextCanon == \E input \in CanonInputs : Canonicalize(input)

SpecCanon == InitCanon /\ [][NextCanon]_vars

\* C32: canonicalizing the canonical form of a string returns it unchanged,
\* whatever the nesting depth of its percent-encoding
C32_Idempotent == canonTwice = canonOnce

\* up to 29 nested encodings of the percent sign one canonicalization
\* decodes everything: eight iterations undo up to four levels each
C32_DecodedInOnePass ==
  \A n \in 0..29 : canonInput = NestedEncoding(n) => canonOnce = <<"U">>

\* with 30 of them the canonical form is "%55", which canonicalizes to "U"
C32_DeepNesting ==
  /\ canonInput = NestedEncoding(30)
  /\ canonOnce = NestedEncoding(0)
  /\ canonTwice = <<"U">>

\* C33: every request the wrapped transport forwards to the protocol is one
\* the pipeline would pass: it carries jsonrpc "2.0", as the structure layer
\* demands, also when the validator had to normalize the inbound object
C33_ForwardedCarriesJsonrpc ==
  \A k \in 1..Len(forwarded) :
    delivered[k].method # Undefined => delivered[k].jsonrpc = "2.0"

\* a request without jsonrpc whose normalized form, which has it, was
\* allowed: the protocol receives the object without jsonrpc
C33_UnvalidatedShapeForwarded ==
  \E k \in 1..Len(forwarded) :
    /\ _getMessageType(inbox[forwarded[k]]) = "request"
    /\ inbox[forwarded[k]].jsonrpc = Undefined
    /\ _normalizeRequest(inbox[forwarded[k]]).jsonrpc = "2.0"
    /\ verdict[forwarded[k]] = "allowed"
    /\ delivered[k].jsonrpc = Undefined

(***************************************************************************)
(* SpecAnyLayers: SecureTransport over a pipeline whose layers are all     *)
(* enabled or all disabled.  With every layer disabled the pipeline passes *)
(* every message, so a message is blocked only when the validator threw.   *)
(***************************************************************************)
InitAnyLayers ==
  /\ enabled \in {[i \in Layers |-> b] : b \in BOOLEAN}
  /\ TransportInit
  /\ ResInit
  /\ SessInit
  /\ ExtraInit
  /\ CacheInit
  /\ ClockInit
  /\ QuotaInit
  /\ L4Init
  /\ L3Init

SpecAnyLayers == InitAnyLayers /\ [][Next]_vars

\* the result of _validateMessage is the one its catch block builds
ValidatorThrew(m) == validationResult[m] = validatorErrorResult

\* C34: when the validator throws (or its promise rejects) the message is
\* handled as a blocked one: it is not forwarded, a request is answered with
\* one error response that carries its id, a notification is dropped
C34_ValidatorThrowBlocks ==
  [][\A m \in 1..Len(inbox) :
       /\ ValidatorThrows(m) => ValidatorThrew(m)' /\ ~validationResult'[m].allowed
       /\ \A sendThrows \in BOOLEAN :
            (ValidatorThrew(m) /\ Decide(m, sendThrows))
            => /\ forwarded' = forwarded
               /\ delivered' = delivered
               /\ sentResponses' =
                    IF _getMessageType(inbox[m]) = "request"
                    THEN Append(sentResponses,
                                [id |-> IF inbox[m].id = Undefined THEN "null"
                                        ELSE inbox[m].id,
                                 for |-> m])
                    ELSE sentResponses]_vars

\* no layer is enabled; the validator threw on a request and on a
\* notification: the request was answered, neither was forwarded
C34_Witness ==
  /\ \A i \in Layers : ~enabled[i]
  /\ Len(inbox) = 2
  /\ _getMessageType(inbox[1]) = "request"
  /\ _getMessageType(inbox[2]) = "notification"
  /\ handler = <<"done", "done">>
  /\ verdict = <<"blocked", "blocked">>
  /\ forwarded = <<>>
  /\ Len(sentResponses) = 1
  /\ sentResponses[1] = [id |-> inbox[1].id, for |-> 1]

(***************************************************************************)
(* SpecFrame: ValidationPipeline.validate over the shipped layers, one     *)
(* call at a time, with the state of L3 and of L4's quota provider.  L1    *)
(* and L2 keep no state the later layers read: what they answer is chosen  *)
(* freely.  L3 and L4 answer as validateBehavior and L4validate do.        *)
(***************************************************************************)
\* number of pipeline.validate calls in one behaviour of SpecFrame
MaxFrameCalls == 3

\* what L3 reads of an L4 message
L3View(msg) == [method |-> msg.method, size |-> 100 + msg.bytes]

\* a layer's ValidationResult as the pipeline reads it: allowed = passed
RawOf(res) ==
  [passed |-> IF res.passed THEN "true" ELSE "false",
   allowed |-> IF res.passed THEN "true" ELSE "false",
   severity |-> res.severity, reason |-> "why",
   violationType |-> res.violationType]

\* the counters the later layers own
LaterState ==
  [requestCounters |-> requestCounters, recentRequests |-> recentRequests,
   counters |-> counters]

\* pipeline.validate(msg) is called
FrameValidate(msg) ==
  /\ frameStage = 0
  /\ frameCalls < MaxFrameCalls
  /\ frameCalls' = frameCalls + 1
  /\ frameStage' = 1
  /\ frameCall' = <<[msg |-> msg, failedAt |-> 0, result |-> SuccessResult,
                     before |-> LaterState]>>
  /\ UNCHANGED <<frameLast, coreVars, l1Vars, shutdownVars, trackVars, blockVars,
                 l5Vars, canonVars, sweepVars, chainVars>>

\* one iteration of the loop: layer frameStage validates; answer is what L1
\* or L2 says of the message
FrameLayer(answer) ==
  /\ frameStage \in Layers
  /\ LET i == frameStage
         call == frameCall[1]
         l3 == validateBehavior(L3View(call.msg), requestCounters,
                                recentRequests, now)
         l4 == L4validate(call.msg, counters, now)
         res == CASE i = 3 -> l3.result
                  [] i = 4 -> l4.result
                  [] OTHER -> answer
         n == normalizedResult(RawOf(res), i)
         failed == IF call.failedAt = 0 /\ ~res.passed
                   THEN [call EXCEPT !.failedAt = i, !.result = res]
                   ELSE call
     IN /\ i \in {3, 4} => answer = SuccessResult
        /\ requestCounters' = IF i = 3 THEN l3.counters ELSE requestCounters
        /\ recentRequests' = IF i = 3 THEN l3.recent ELSE recentRequests
        /\ counters' = IF i = 4 THEN l4.counters ELSE counters
        /\ IF PipelineReturns(n) \/ i = 4
           THEN /\ frameStage' = 0
                /\ frameCall' = <<>>
                /\ frameLast' = <<failed>>
           ELSE /\ frameStage' = i + 1
                /\ frameCall' = <<failed>>
                /\ UNCHANGED frameLast
  /\ UNCHANGED <<frameCalls, rateLimits, l3Pending, l3Log, l3Batch, minuteWindow,
                 tool, policy, l4Pending, l4Done, l4Last, toolWindow,
                 quotaLimits, quotaCalls, quotaWindows, quotaLast>>
  /\ UNCHANGED <<transportVars, pipelineHistory, cacheVars, clockVars, resVars,
                 sessVars, l1Vars, shutdownVars, trackVars, blockVars, l5Vars,
                 canonVars, sweepVars, chainVars>>

\* one request a minute, one call of the tool a minute
InitFrame ==
  /\ enabled = [i \in Layers |-> TRUE]
  /\ TransportInit
  /\ ResInit
  /\ SessInit
  /\ ExtraInit
  /\ CacheInit
  /\ ClockInit
  /\ QuotaInit
  /\ \E perMinute \in {1, 2} :
        rateLimits = RateLimitsOf([requestsPerMinute |-> perMinute,
                                   requestsPerHour |-> 0, burstThreshold |-> 0])
  /\ L3Fresh
  /\ tool = [DefaultTool EXCEPT !.quotaPerMinute = 1]
  /\ policy = [allowWrites |-> FALSE, allowNetwork |-> FALSE]
  /\ l4Pending = 0
  /\ l4Done = 0
  /\ l4Last = <<>>
  /\ toolWindow = NoWindow

NextFrame ==
  \/ \E msg \in L4Messages : FrameValidate(msg)
  \/ \E answer \in {SuccessResult, FailureResult("HIGH", "POLICY")} :
       FrameLayer(answer)

SpecFrame == InitFrame /\ [][NextFrame]_vars

\* L4 rejects the message in checkMethodSemantics or in checkToolCall before
\* its quota check
FailsShapeOrContract(msg) ==
  \/ ~checkMethodSemantics(msg).passed
  \/ /\ msg.method = "tools/call"
     /\ \/ ~NameGiven(msg.name)
        \/ msg.name # tool.name
        \/ ~validateToolContract(tool, msg).passed

\* C35: a message blocked by L1 or L2 leaves L3's rate counters and burst
\* ring and L4's quota counters as they were; a message blocked by L3, or by
\* L4's method-shape or tool-contract checks, leaves every quota counter as
\* it was
C35_BlockedLeavesLaterState ==
  (frameStage = 0 /\ frameLast # <<>>) =>
    LET c == frameLast[1] IN
    /\ c.failedAt \in {1, 2} => LaterState = c.before
    /\ c.failedAt = 3 => counters = c.before.counters
    /\ (c.failedAt = 4 /\ FailsShapeOrContract(c.msg))
         => counters = c.before.counters

\* after a call of the tool was counted, a second call of the tool is
\* blocked by L3: the tool's counter still stands at one
C35_Witness ==
  /\ frameStage = 0
  /\ frameLast # <<>>
  /\ frameLast[1].failedAt = 3
  /\ ReachesToolQuota(frameLast[1].msg)
  /\ counters["tool:calc"]["minute"].count = 1
  /\ requestCounters["requests-per-minute"].count = 2

(***************************************************************************)
(* SpecSweep: InMemoryQuotaProvider with its sweep, next to a provider     *)
(* that receives the same incrementAndCheck calls and is never swept.  The *)
(* clock only advances, so the timestamps of the calls and of the sweeps   *)
(* do not decrease.                                                        *)
(***************************************************************************)
\* number of incrementAndCheck calls in one behaviour of SpecSweep
MaxSweepCalls == 4
\* number of clock advances in one behaviour of SpecSweep
MaxSweepTicks == 3
\* the clock advances of SpecSweep: to the last instant of a minute window,
\* and past the expiry sweep gives a minute bucket and an hour bucket
SweepTickSteps == {61000, 121001, 7201001}

SweepCall(key) ==
  /\ quotaCalls < MaxSweepCalls
  /\ LET res == incrementAndCheck(counters, key, quotaLimits[key], now)
         ref == incrementAndCheck(unswept, key, quotaLimits[key], now)
     IN /\ counters' = res.counters
        /\ unswept' = ref.counters
        /\ sweepLast' = <<[key |-> key, passed |-> res.passed,
                           unsweptPassed |-> ref.passed,
                           swept |-> counters[key] # unswept[key]]>>
  /\ quotaCalls' = quotaCalls + 1
  /\ UNCHANGED <<quotaLimits, quotaWindows, quotaLast, clockVars>>
  /\ UNCHANGED <<transportVars, pipelineHistory, cacheVars, l4Vars, l3Vars,
                 resVars, sessVars, l1Vars, shutdownVars, trackVars, blockVars,
                 l5Vars, canonVars, frameVars, chainVars>>

\* sweep(now) is called between two incrementAndCheck calls
SweepFires ==
  /\ counters' = sweep(counters, now)
  /\ UNCHANGED <<quotaLimits, quotaCalls, quotaWindows, quotaLast, clockVars>>
  /\ UNCHANGED quotaFrame

InitSweep == InitQuota

NextSweep ==
  \/ \E key \in QuotaKeys : SweepCall(key)
  \/ SweepFires
  \/ \E d \in SweepTickSteps : Tick(d, MaxSweepTicks)

SpecSweep == InitSweep /\ [][NextSweep]_vars

\* C36: with timestamps that do not decrease, sweep(now) calls put between
\* incrementAndCheck calls change no result: every call answers as it does
\* on the provider that was never swept, and so would the next call on any
\* key
C36_SweepChangesNoResult ==
  /\ sweepLast # <<>> => sweepLast[1].passed = sweepLast[1].unsweptPassed
  /\ \A k \in QuotaKeys :
       incrementAndCheck(counters, k, quotaLimits[k], now).passed
         = incrementAndCheck(unswept, k, quotaLimits[k], now).passed

\* a call on a key whose buckets the sweep had removed: it passed on both
\* providers, and the next call is rejected on both
C36_Witness ==
  /\ sweepLast # <<>>
  /\ sweepLast[1].swept
  /\ sweepLast[1].passed
  /\ quotaLimits[sweepLast[1].key].minute = 1
  /\ ~incrementAndCheck(counters, sweepLast[1].key,
                        quotaLimits[sweepLast[1].key], now).passed

\* the bucket after checkWindow counted one call at the time now: reset
\* first when its window is over
CountedOnce(k, b) ==
  LET entry == ensureEntry(counters, k, b, now)
      over == now - entry.windowStart > WindowMs(b) + clockSkewMs
  IN [present |-> TRUE,
      count |-> IF over THEN 1 ELSE entry.count + 1,
      windowStart |-> IF over THEN now ELSE entry.windowStart]

\* the per-minute bucket of k has a limit and the call just made exceeded it
MinuteRejects(k) ==
  /\ quotaLimits[k]["minute"] # 0
  /\ CountedOnce(k, "minute").count > quotaLimits[k]["minute"]

\* C37 (as stated): on every incrementAndCheck call each bucket that has a
\* limit is incremented by exactly one, after a possible window reset,
\* whether the call passes or is rejected by either bucket
C37_EveryLimitedBucketCounts ==
  [][\A k \in QuotaKeys, b \in Buckets :
       (CallOn(k) /\ quotaLimits[k][b] # 0)
         => counters'[k][b] = CountedOnce(k, b)]_vars

\* C37 (amended): on every incrementAndCheck call the per-minute bucket,
\* when it has a limit, is incremented by exactly one after a possible
\* window reset; so is the per-hour bucket, unless the per-minute bucket
\* rejected the call: then it is left as it was.  A bucket without a limit
\* is left as it was.
C37_HourCountsUnlessMinuteRejects ==
  [][\A k \in QuotaKeys, b \in Buckets :
       CallOn(k) =>
         IF quotaLimits[k][b] = 0 \/ (b = "hour" /\ MinuteRejects(k))
         THEN counters'[k][b] = counters[k][b]
         ELSE counters'[k][b] = CountedOnce(k, b)]_vars

\* with both limits set the second call of a minute was rejected by the
\* per-minute bucket, which counted it; the per-hour bucket did not
C37_Witness ==
  /\ quotaLimits["tool:calc"] = [minute |-> 1, hour |-> 3]
  /\ quotaLast # <<>>
  /\ quotaLast[1].key = "tool:calc"
  /\ ~quotaLast[1].passed
  /\ counters["tool:calc"]["minute"].count = 2
  /\ counters["tool:calc"]["hour"].count = 1

\* the timestamps the burst ring holds that are less than 10 000 ms old
RingWithinBurstSpan == NewerThan(recentRequests, now - 10000)

\* C38: every message that reaches L3 is in the burst ring, rejected or not,
\* for as long as the burst check counts it; so a message that arrives when
\* more than burstThreshold messages, counting itself, reached L3 in the
\* preceding 10 000 ms is rejected, by the burst check or by the rate check
\* before it
C38_RejectedAreRecorded ==
  /\ Len(RingWithinBurstSpan)
       = Cardinality({i \in 1..Len(l3Log) : l3Log[i].at > now - 10000})
  /\ \A i \in 1..Len(l3Log) :
       Cardinality(ReachedWithin(i, 10000)) > rateLimits.burstThreshold
         => l3Log[i].result \in {BurstActivity, RateLimitExceeded}

\* with a threshold of one, the second and the third message of a burst were
\* rejected by the burst check, and the ring holds all three
C38_Witness ==
  /\ rateLimits.burstThreshold = 1
  /\ Len(l3Log) = 3
  /\ l3Log[1].result.passed
  /\ l3Log[2].result = BurstActivity
  /\ l3Log[3].result = BurstActivity
  /\ l3Log[3].at > l3Log[2].at
  /\ l3Log[3].at - l3Log[1].at < 10000
  /\ recentRequests = <<l3Log[1].at, l3Log[2].at, l3Log[3].at>>

(***************************************************************************)
(* SpecChain: SemanticsValidationLayer.checkMethodChaining over its        *)
(* SessionMemory, for any subset of the default rules.                     *)
(***************************************************************************)
\* number of checkMethodChaining calls and of clock advances in one behaviour
MaxChainCalls == 3
MaxChainTicks == 2
\* the clock advances of SpecChain: a moment, and past ttlMs
ChainTickSteps == {1, 1800001}
ChainMethods == {"initialize", "ping", "tools/list", "tools/call"}
\* the contexts validate may be given
ChainContexts == [sessionId : {Undefined, "s1"}, clientId : {Undefined, "s2"}]

\* context?.sessionId || context?.clientId || 'global'
getSessionKey(context) ==
  IF context.sessionId # Undefined THEN context.sessionId
  ELSE IF context.clientId # Undefined THEN context.clientId
  ELSE "global"

\* a check that remembers the method also when it denies it
checkMethodChainingMut(message, context, map, t) ==
  LET sessionKey == getSessionKey(context)
      got == get(map, sessionKey, t)
      previousMethod == IF got.value = Undefined THEN "*" ELSE got.value
      allowed == \E rule \in chaining :
                   /\ rule.from = previousMethod \/ rule.from = "*"
                   /\ rule.to = message.method
  IN [map |-> set(got.map, sessionKey, message.method, t),
      result |-> IF allowed THEN SuccessResult
                 ELSE FailureResult("MEDIUM", "CHAIN_VIOLATION")]
\* checkMethodChaining: the result and the SessionMemory it leaves
checkMethodChaining(message, context, map, t) ==
  LET sessionKey == getSessionKey(context)
      got == get(map, sessionKey, t)
      previousMethod == IF got.value = Undefined THEN "*" ELSE got.value
      allowed == \E rule \in chaining :
                   /\ rule.from = previousMethod \/ rule.from = "*"
                   /\ rule.to = message.method
  IN [map |-> IF allowed THEN set(got.map, sessionKey, message.method, t)
              ELSE got.map,
      result |-> IF allowed THEN SuccessResult
                 ELSE FailureResult("MEDIUM", "CHAIN_VIOLATION")]

\* the session's last method as a reader finds it at time t: none when there
\* is no entry or the entry is older than ttlMs
LastMethod(map, key, t) ==
  IF mapHas(map, key) /\ ~(t - mapGet(map, key).timestamp > ttlMs)
  THEN mapGet(map, key).method
  ELSE Undefined

ChainCheck(method, context) ==
  /\ chainCalls < MaxChainCalls
  /\ LET res == checkMethodChaining([method |-> method], context, sessionMap, now)
     IN /\ sessionMap' = res.map
        /\ chainLast' = <<[method |-> method, key |-> getSessionKey(context),
                           previous |-> LastMethod(sessionMap,
                                                   getSessionKey(context), now),
                           result |-> res.result]>>
  /\ chainCalls' = chainCalls + 1
  /\ UNCHANGED <<chaining, sessionOps, sessionLast, sessionUsed>>
  /\ UNCHANGED <<transportVars, pipelineHistory, cacheVars, clockVars, quotaVars,
                 l4Vars, l3Vars, resVars, l1Vars, shutdownVars, trackVars,
                 blockVars, l5Vars, canonVars, frameVars, sweepVars>>

InitChain ==
  /\ enabled = [i \in Layers |-> TRUE]
  /\ TransportInit
  /\ ResInit
  /\ SessInit
  /\ L1Init
  /\ ShutdownInit
  /\ TrackInit
  /\ BlockInit
  /\ L5Init
  /\ CanonInit
  /\ FrameInit
  /\ SweepInit
  /\ chaining \in SUBSET DefaultChaining
  /\ chainCalls = 0
  /\ chainLast = <<>>
  /\ CacheInit
  /\ ClockInit
  /\ QuotaInit
  /\ L4Init
  /\ L3Init

NextChain ==
  \/ \E method \in ChainMethods, context \in ChainContexts :
       ChainCheck(method, context)
  \/ \E d \in ChainTickSteps : Tick(d, MaxChainTicks)

SpecChain == InitChain /\ [][NextChain]_vars

\* C39: checkMethodChaining allows the current method if and only if some
\* rule has it as its to and has as its from the session's last method or
\* '*'; when it allows, the session's last method becomes the current one,
\* when it denies, the session's last method stays what it was
C39_ChainingRule ==
  [][chainCalls' = chainCalls + 1 =>
       LET c == chainLast'[1]
           after == LastMethod(sessionMap', c.key, now)
       IN /\ c.result.passed <=>
               \E rule \in chaining :
                 /\ rule.to = c.method
                 /\ rule.from = "*" \/ (c.previous # Undefined /\ rule.from = c.previous)
          /\ c.result.passed => after = c.method
          /\ ~c.result.passed => /\ after = c.previous
                                 /\ c.result = FailureResult("MEDIUM", "CHAIN_VIOLATION")]_vars

\* after initialize and tools/list, ping was denied for want of a rule: the
\* session still stands at tools/list, and tools/call is allowed next
C39_Witness ==
  /\ [from |-> "*", to |-> "ping"] \notin chaining
  /\ chainCalls = 3
  /\ chainLast # <<>>
  /\ chainLast[1].method = "ping"
  /\ chainLast[1].previous = "tools/list"
  /\ ~chainLast[1].result.passed
  /\ LastMethod(sessionMap, chainLast[1].key, now) = "tools/list"
  /\ checkMethodChaining([method |-> "tools/call"],
                         [sessionId |-> chainLast[1].key, clientId |-> Undefined],
                         sessionMap, now).result.passed

\* the step is a call of op on key k
SessionCallOf(op, k) ==
  /\ sessionOps' = sessionOps + 1
  /\ sessionLast'[1].op = op
  /\ sessionLast'[1].key = k

\* C40: an entry's age runs from its last set: only a set of its key gives
\* an entry its timestamp (the time of that set), a get hit moves the entry
\* to the most recently used end with its timestamp as it was, and a get or
\* has that finds the entry more than ttlMs after that timestamp returns
\* nothing
C40_ReadsDoNotRefreshAge ==
  [][\A k \in SessionKeys :
       /\ mapHas(sessionMap', k) =>
            IF SessionCallOf("set", k)
            THEN mapGet(sessionMap', k).timestamp = now
            ELSE /\ mapHas(sessionMap, k)
                 /\ mapGet(sessionMap', k) = mapGet(sessionMap, k)
       /\ (SessionCallOf("get", k) /\ sessionLast'[1].value # Undefined) =>
            sessionMap'[Len(sessionMap')].key = k
       /\ ( /\ SessionCallOf("get", k) \/ SessionCallOf("has", k)
            /\ mapHas(sessionMap, k)
            /\ now - mapGet(sessionMap, k).timestamp > ttlMs ) =>
            /\ sessionLast'[1].value = Undefined
            /\ ~sessionLast'[1].found
            /\ ~mapHas(sessionMap', k)]_vars

\* s1 was set at 0 and s2 at 1; the get of s1 at 2 hit and moved s1 behind
\* s2, still with the timestamp of its set
C40_Witness ==
  /\ sessionOps = 3
  /\ now = 2
  /\ sessionLast # <<>>
  /\ sessionLast[1].op = "get"
  /\ sessionLast[1].key = "s1"
  /\ sessionLast[1].value # Undefined
  /\ Len(sessionMap) = 2
  /\ sessionMap[1].key = "s2"
  /\ sessionMap[1].timestamp = 1
  /\ sessionMap[2].key = "s1"
  /\ sessionMap[2].timestamp = 0
\* the same entry, read at the end of its ttlMs and again a moment later,
\* was then found expired and removed
C40_ExpiredAfterReads ==
  /\ sessionOps = 3
  /\ now = ttlMs + 1
  /\ sessionLast # <<>>
  /\ sessionLast[1].op = "get"
  /\ sessionLast[1].old
  /\ sessionLast[1].value = Undefined
  /\ sessionUsed = <<sessionLast[1].key>>
  /\ sessionMap = <<>>

====
